---- MODULE Spec2Model ----
(***************************************************************************)
(* Scoring, leaderboard update and recount of apexpredictor.               *)
(*                                                                         *)
(*   services/update_scores.py      get_padded_points, the scoring rules   *)
(*                                  and handler (the Leaderboard Updater)  *)
(*   migrations/recount_points/main.py   the recount sweep                 *)
(*                                                                         *)
(* The DynamoDB table is modelled per item family:                         *)
(*   pred[r][u]  the prediction item of user u for race r                  *)
(*   lb[s][u]    the item LEADERBOARD#<category>#<s> / USER#<u> that       *)
(*               update_scores.handler reads and writes                    *)
(*   tp[s][u]    the item user#<u>#season#<s> / TOTALPOINTS that the       *)
(*               recount sweep writes                                      *)
(***************************************************************************)
EXTENDS Integers, Sequences, FiniteSets, TLC

\* ------------------------------------------------------------------ bounds

\* How many times update_scores.handler may be invoked in one behaviour.
MaxInvocations == 2

\* How many iterations the recount loop of main may run in one behaviour.
MaxRecounts == 2

\* How far around each boundary of the rank key (0, M and the totals where
\* M - points gains a digit) the totals passed to get_padded_points reach.
MaxDelta == 2

\* How many entries a predicted gridOrder or sprintPositions list may have
\* when the lists are enumerated.
MaxPicks == 3

\* How many times insert_race_results.handler may be called in one behaviour.
MaxInserts == 3

\* Runs of the copy scripts (copy_leaderboard, copy_race_predictions,
\* change_season) in one behaviour.
MaxCopies == 2

\* Pages one invocation of update_scores.handler may query.
MaxPages == 3

\* Items the byUser index may hold for the user whose account is deleted;
\* above BatchSize, so that batch_delete_items needs a second batch.
MaxItems == 27

\* deleteAccount.py line 82: BatchWriteItem takes 25 keys at most.
BatchSize == 25

\* ------------------------------------------------------------- the domain

Users == {"u1", "u2"}

Races == {"r1", "r2", "r3"}

Seasons == {"2025", "2026"}

\* The season each race belongs to: the season the orchestrator passes in the
\* event, and the season attribute of the race's prediction items.
SeasonOf(r) == IF r = "r3" THEN "2026" ELSE "2025"

\* Python's None, and a missing item (no "Item" key in a get_item response).
None == -1

NoItem == [exists |-> FALSE]

\* ------------------------------------------------------ Rank Key Codec

\* The ceiling the rank key is subtracted from.
M == 1000000

\* The width the rank key is zero-filled to.
Width == 7

DigitChar(d) == <<"0", "1", "2", "3", "4", "5", "6", "7", "8", "9">>[d + 1]

RECURSIVE DecimalDigits(_)
\* str(n) for n >= 0
DecimalDigits(n) ==
    IF n < 10 THEN <<DigitChar(n)>>
    ELSE Append(DecimalDigits(n \div 10), DigitChar(n % 10))

\* str(n) for any integer n
str(n) == IF n < 0 THEN <<"-">> \o DecimalDigits(-n) ELSE DecimalDigits(n)

RECURSIVE Zeros(_)
Zeros(k) == IF k <= 0 THEN <<>> ELSE <<"0">> \o Zeros(k - 1)

\* str.zfill(width): zeros go after a leading sign; never truncates
zfill(s, width) ==
    IF Len(s) >= width THEN s
    ELSE IF Len(s) > 0 /\ s[1] = "-"
         THEN <<"-">> \o Zeros(width - Len(s)) \o Tail(s)
         ELSE Zeros(width - Len(s)) \o s

\* A slip in line 18: the ceiling one short (999999 for 1000000).
get_padded_points_ceiling(points) == zfill(str((M - 1) - points), Width)

\* A slip in line 19: the zero fill left out.
get_padded_points_unpadded(points) == str(M - points)

\* A slip in line 18: the points themselves are padded, not M - points.
get_padded_points_unreversed(points) == zfill(str(points), Width)

get_padded_points(points) == zfill(str(M - points), Width)

\* The value of a decimal digit character.
DigitValue(c) == CHOOSE d \in 0..9 : DigitChar(d) = c

RECURSIVE ParseDigits(_)
\* int(s) for a string of decimal digits (leading zeros allowed).
ParseDigits(s) ==
    IF s = <<>> THEN 0
    ELSE 10 * ParseDigits(SubSeq(s, 1, Len(s) - 1)) + DigitValue(s[Len(s)])

\* The inverse of the encoding: the total a rank key stands for.
decode(key) == M - ParseDigits(key)

\* f"{padded}#USER#{user_id}"
LeaderboardSK(padded, user_id) == padded \o <<"#USER#", user_id>>

\* The numeric prefix of a byLeaderboardSK: everything before "#USER#".
RankKey(sk) == SubSeq(sk, 1, Len(sk) - 2)

\* ------------------------------------------------- Scoring Rule Engine

\* A gridOrder / sprintPositions entry: {"driverNumber": dn, "position": pos}.
Entry(dn, pos) == [driverNumber |-> dn, position |-> pos]

\* next((x for x in seq if x[field] == value), None) as an index: the first
\* match, or 0 when there is none.
FirstIndex(seq, field, value) ==
    IF \E i \in DOMAIN seq : seq[i][field] = value
    THEN CHOOSE i \in DOMAIN seq :
            /\ seq[i][field] = value
            /\ \A j \in DOMAIN seq : seq[j][field] = value => i <= j
    ELSE 0

\* Python truthiness of a driver number read with .get(): None and 0 are falsy.
Truthy(dn) == dn /= None /\ dn /= 0

\* A slip in lines 61-66: the tiers of a miss by one and by two exchanged.
TierPointsSwapped(diff) ==
    IF diff = 0 THEN 10 ELSE IF diff = 1 THEN 2 ELSE IF diff = 2 THEN 5 ELSE 0

\* 10 / 5 / 2 / 0 by the distance between actual and predicted position.
TierPoints(diff) ==
    IF diff = 0 THEN 10 ELSE IF diff = 1 THEN 5 ELSE IF diff = 2 THEN 2 ELSE 0

abs(x) == IF x < 0 THEN -x ELSE x

EmptyBreakdown ==
    [gridPosition |-> None, sprintPosition |-> None, pole |-> None,
     fastestLap |-> None, positionsGained |-> None]

\* A slip in lines 36-43: the prediction's drivers are not added.
all_driver_numbers_result_only(predictions, race_results, has_sprint) ==
    {race_results.gridOrder[i].driverNumber : i \in DOMAIN race_results.gridOrder}
    \cup (IF has_sprint /\ race_results.sprintPositions /= <<>>
          THEN {race_results.sprintPositions[i].driverNumber :
                    i \in DOMAIN race_results.sprintPositions}
          ELSE {})

\* A slip in lines 28-34: the result's drivers are not added.
all_driver_numbers_prediction_only(predictions, race_results, has_sprint) ==
    {predictions.gridOrder[i].driverNumber :
            i \in {j \in DOMAIN predictions.gridOrder :
                        Truthy(predictions.gridOrder[j].driverNumber)}}
    \cup (IF has_sprint /\ predictions.sprintPositions /= <<>>
          THEN {predictions.sprintPositions[i].driverNumber :
                  i \in {j \in DOMAIN predictions.sprintPositions :
                            Truthy(predictions.sprintPositions[j].driverNumber)}}
          ELSE {})

\* Lines 28-43: every driver number of the result, and every truthy driver
\* number of the prediction; the sprint lists only when has_sprint.
all_driver_numbers(predictions, race_results, has_sprint) ==
    {race_results.gridOrder[i].driverNumber : i \in DOMAIN race_results.gridOrder}
    \cup (IF has_sprint /\ race_results.sprintPositions /= <<>>
          THEN {race_results.sprintPositions[i].driverNumber :
                    i \in DOMAIN race_results.sprintPositions}
          ELSE {})
    \cup {predictions.gridOrder[i].driverNumber :
            i \in {j \in DOMAIN predictions.gridOrder :
                        Truthy(predictions.gridOrder[j].driverNumber)}}
    \cup (IF has_sprint /\ predictions.sprintPositions /= <<>>
          THEN {predictions.sprintPositions[i].driverNumber :
                  i \in {j \in DOMAIN predictions.sprintPositions :
                            Truthy(predictions.sprintPositions[j].driverNumber)}}
          ELSE {})

\* driver_points_map[dn]["points"] += pts; ...["breakdown"][key] = pts
Award(map, dn, key, pts) ==
    [map EXCEPT ![dn] = [points |-> @.points + pts,
                         breakdown |-> [@.breakdown EXCEPT ![key] = pts]]]

RECURSIVE PositionLoopNoGuard(_, _, _, _, _, _)
\* A slip in lines 58 and 90: the guard 'if actual:' left out, so that a
\* driver the result does not list gets an entry of 0 points.
PositionLoopNoGuard(map, preds, actuals, key, skipFalsy, k) ==
    IF k > Len(preds) THEN map
    ELSE LET dn == preds[k].driverNumber
             a == FirstIndex(actuals, "driverNumber", dn)
             skip == IF skipFalsy THEN ~Truthy(dn) ELSE dn = None
             next == IF skip \/ dn \notin DOMAIN map THEN map
                     ELSE IF a = 0 THEN Award(map, dn, key, 0)
                     ELSE Award(map, dn, key,
                                TierPoints(abs(actuals[a].position
                                               - preds[k].position)))
         IN  PositionLoopNoGuard(next, preds, actuals, key, skipFalsy, k + 1)

RECURSIVE PositionLoop(_, _, _, _, _, _)
\* The loops of lines 49-69 (key "gridPosition", skip when dn is None) and of
\* lines 77-101 (key "sprintPosition", skip when dn is falsy), from index k on.
PositionLoop(map, preds, actuals, key, skipFalsy, k) ==
    IF k > Len(preds) THEN map
    ELSE LET dn == preds[k].driverNumber
             a == FirstIndex(actuals, "driverNumber", dn)
             skip == IF skipFalsy THEN ~Truthy(dn) ELSE dn = None
             next == IF skip \/ a = 0 THEN map
                     ELSE Award(map, dn, key,
                                TierPoints(abs(actuals[a].position
                                               - preds[k].position)))
         IN  PositionLoop(next, preds, actuals, key, skipFalsy, k + 1)

AdditionalKeys == <<"pole", "fastestLap", "positionsGained">>

RECURSIVE AdditionalLoop(_, _, _, _)
\* Lines 107-113.
AdditionalLoop(map, add_pred, add_actual, k) ==
    IF k > Len(AdditionalKeys) THEN map
    ELSE LET key == AdditionalKeys[k]
             a_val == add_actual[key]
             p_val == add_pred[key]
             next == IF a_val /= None /\ p_val /= None /\ a_val = p_val
                        /\ a_val \in DOMAIN map
                     THEN Award(map, a_val, key, 10)
                     ELSE map
         IN  AdditionalLoop(next, add_pred, add_actual, k + 1)

calculate_driver_points(predictions, race_results, has_sprint) ==
    LET init == [dn \in all_driver_numbers(predictions, race_results, has_sprint)
                    |-> [points |-> 0, breakdown |-> EmptyBreakdown]]
        grid == PositionLoop(init, predictions.gridOrder, race_results.gridOrder,
                             "gridPosition", FALSE, 1)
        sprint == IF has_sprint /\ race_results.sprintPositions /= <<>>
                     /\ predictions.sprintPositions /= <<>>
                  THEN PositionLoop(grid, predictions.sprintPositions,
                                    race_results.sprintPositions,
                                    "sprintPosition", TRUE, 1)
                  ELSE grid
    IN  AdditionalLoop(sprint, predictions.additionalPredictions,
                       race_results.additionalPredictions, 1)

\* A slip in line 137: the actual position is not compared.
is_pos_correct_listed(predictions, race_results, pos) ==
    LET p == FirstIndex(predictions.gridOrder, "position", pos)
    IN  IF p = 0 \/ predictions.gridOrder[p].driverNumber = None THEN FALSE
        ELSE FirstIndex(race_results.gridOrder, "driverNumber",
                        predictions.gridOrder[p].driverNumber) /= 0

is_pos_correct(predictions, race_results, pos) ==
    LET p == FirstIndex(predictions.gridOrder, "position", pos)
    IN  IF p = 0 \/ predictions.gridOrder[p].driverNumber = None THEN FALSE
        ELSE LET a == FirstIndex(race_results.gridOrder, "driverNumber",
                                 predictions.gridOrder[p].driverNumber)
             IN  a /= 0 /\ race_results.gridOrder[a].position = pos

\* A slip in lines 150-155: the winner's award left out of the sum.
calculate_bonus_points_no_winner(predictions, race_results) ==
    LET correct_count ==
            Cardinality({i \in 1..10 : is_pos_correct(predictions, race_results, i)})
    IN  (IF \A i \in 1..3 : is_pos_correct(predictions, race_results, i)
         THEN 30 ELSE 0)
        + (IF correct_count >= 6 THEN 60 ELSE 0)
        + (IF correct_count = 10 THEN 100 ELSE 0)

\* A slip in line 143: range(1, 10), so that position 10 is never counted.
calculate_bonus_points_nine(predictions, race_results) ==
    LET correct_count ==
            Cardinality({i \in 1..9 : is_pos_correct(predictions, race_results, i)})
    IN  (IF is_pos_correct(predictions, race_results, 1) THEN 10 ELSE 0)
        + (IF \A i \in 1..3 : is_pos_correct(predictions, race_results, i)
           THEN 30 ELSE 0)
        + (IF correct_count >= 6 THEN 60 ELSE 0)
        + (IF correct_count = 10 THEN 100 ELSE 0)

\* A slip in lines 150-155: only the highest award earned is paid.
calculate_bonus_points_exclusive(predictions, race_results) ==
    LET correct_count ==
            Cardinality({i \in 1..10 : is_pos_correct(predictions, race_results, i)})
    IN  IF correct_count = 10 THEN 100
        ELSE IF correct_count >= 6 THEN 60
        ELSE IF \A i \in 1..3 : is_pos_correct(predictions, race_results, i)
        THEN 30
        ELSE IF is_pos_correct(predictions, race_results, 1) THEN 10
        ELSE 0

calculate_bonus_points(predictions, race_results) ==
    LET winner_earned == is_pos_correct(predictions, race_results, 1)
        podium_earned == /\ is_pos_correct(predictions, race_results, 1)
                         /\ is_pos_correct(predictions, race_results, 2)
                         /\ is_pos_correct(predictions, race_results, 3)
        correct_count ==
            Cardinality({i \in 1..10 : is_pos_correct(predictions, race_results, i)})
        top6_earned == correct_count >= 6
        all_correct_earned == correct_count = 10
    IN  (IF winner_earned THEN 10 ELSE 0)
        + (IF podium_earned THEN 30 ELSE 0)
        + (IF top6_earned THEN 60 ELSE 0)
        + (IF all_correct_earned THEN 100 ELSE 0)

RECURSIVE SumPoints(_, _)
\* sum(d["points"] for d in driver_points.values())
SumPoints(map, drivers) ==
    IF drivers = {} THEN 0
    ELSE LET d == CHOOSE x \in drivers : TRUE
         IN  map[d].points + SumPoints(map, drivers \ {d})

\* A slip in lines 223-225: the bonus left out of the total.
total_race_points_no_bonus(predictions, race_results, has_sprint) ==
    LET driver_points == calculate_driver_points(predictions, race_results, has_sprint)
    IN  SumPoints(driver_points, DOMAIN driver_points)

\* Lines 220-225 of handler.
total_race_points(predictions, race_results, has_sprint) ==
    LET driver_points == calculate_driver_points(predictions, race_results, has_sprint)
    IN  SumPoints(driver_points, DOMAIN driver_points)
        + calculate_bonus_points(predictions, race_results)

\* ------------------------------------------------------- the table's items

\* The official result of each race, as the orchestrator passes it in the event.
RaceResultOf(r) ==
    IF r = "r1"
    THEN [gridOrder |-> <<Entry(1, 1), Entry(4, 2), Entry(16, 3)>>,
          sprintPositions |-> <<>>,
          additionalPredictions |->
              [pole |-> 1, fastestLap |-> 16, positionsGained |-> 10]]
    ELSE IF r = "r2"
    THEN [gridOrder |-> <<Entry(4, 1), Entry(1, 2), Entry(16, 3)>>,
          sprintPositions |-> <<Entry(16, 1), Entry(4, 2)>>,
          additionalPredictions |->
              [pole |-> 4, fastestLap |-> None, positionsGained |-> None]]
    ELSE [gridOrder |-> <<Entry(16, 1), Entry(1, 2), Entry(4, 3)>>,
          sprintPositions |-> <<>>,
          additionalPredictions |->
              [pole |-> None, fastestLap |-> None, positionsGained |-> None]]

\* The race item's hasSprint attribute (race_item.get("hasSprint", False)).
HasSprintOf(r) == r = "r2"

\* The forecast each user submitted for each race.
PredictionOf(r, u) ==
    IF u = "u1"
    THEN [gridOrder |-> <<Entry(1, 1), Entry(4, 2), Entry(16, 3)>>,
          sprintPositions |-> <<Entry(16, 1)>>,
          additionalPredictions |->
              [pole |-> 1, fastestLap |-> None, positionsGained |-> None]]
    ELSE [gridOrder |-> <<Entry(16, 1), Entry(44, 2), Entry(4, 3)>>,
          sprintPositions |-> <<>>,
          additionalPredictions |->
              [pole |-> None, fastestLap |-> 16, positionsGained |-> None]]

\* Which users submitted a prediction for which race.
HasPrediction(r, u) == ~(r = "r3" /\ u = "u2")

\* A prediction item before any scoring: PK PREDICTION#<category>#<race_id>;
\* 'points' is optional on it.
NewPredictionItem(r, u) ==
    [exists |-> TRUE, entityType |-> "PREDICTION", userId |-> u, user_id |-> u,
     race_id |-> r, season |-> SeasonOf(r), prediction |-> PredictionOf(r, u),
     points |-> None, byLeaderboardSK |-> <<>>, missing |-> "none"]

\* The fields a malformed prediction item may lack: handler reads each of
\* them with [] (lines 212, 214 and, in calculate_driver_points, 59).
RequiredFields == {"userId", "prediction", "position"}

\* The prediction items that may be malformed, with the field they lack.
Malformable == {<<"r1", "u1">>} \X RequiredFields

\* The item LEADERBOARD#<category>#<season> / USER#<user_id> as created before
\* any race is scored (initMyLeaderboards).
NewLeaderboardItem(u) ==
    [exists |-> TRUE, totalPoints |-> 0, numberOfRaces |-> 0,
     byLeaderboardSK |-> LeaderboardSK(get_padded_points(0), u)]

\* The item user#<user_id>#season#<season> / TOTALPOINTS
\* (put_leaderboard_clone lists its attributes).
TotalPointsItem(u, s, et, points, races) ==
    [exists |-> TRUE, entityType |-> et, user_id |-> u, season |-> s,
     points |-> points, races |-> races]

\* Contents a TOTALPOINTS item may hold before a sweep: <<points, races>>.
PriorTotals == {<<0, 0>>, <<500, 9>>}

\* Before any prediction was scored.
NoScoring == [pc |-> "none"]

VARIABLES
    pred,          \* pred[r][u]: the prediction items
    lb,            \* lb[s][u]: the items handler reads and writes
    tp,            \* tp[s][u]: the items the recount sweep writes
    run,           \* run[i]: the locals of invocation slot i of handler
    rc,            \* the locals of the recount loop (main)
    invocations,   \* handler invocations started so far
    recounts,      \* iterations of the recount loop started so far
    applied,       \* history: applied[u][r] = leaderboard writes that added
                   \*   race r's points to u's total
    aborts,        \* history: aborts[r] = invocations for r that were cut off
    completions,   \* history: completions[r] = invocations for r whose loop ended
    overlapped,    \* history: two invocations were ever in flight together
    contended,     \* history: contended[u] = an invocation ever read u's
                   \*   entry while another had read it and not yet written
    recounted      \* history: recounted[s][u] = "never" | "fresh" | "stale":
                   \*   whether the sweep wrote tp[s][u], and whether any of
                   \*   u's prediction items was written since it summed them

VARIABLES
    results,       \* the RESULT items (results.items[r]), the time and the
                   \*   outcome of the latest call of insert_race_results
    codec,         \* the latest calls of get_padded_points, newest first
    scoring,       \* the latest scoring of one prediction against one result
    copy,          \* the locals of a run of a copy script (its main)
    account        \* deleteAccount.handler: its locals, the keys of the
                   \*   user's items in the table, the Cognito user

vars == <<pred, lb, tp, run, rc, invocations, recounts, applied, aborts,
          completions, overlapped, contended, recounted, results, codec,
          scoring, copy, account>>

\* The prediction and leaderboard items, with the updater and the sweep.
boardVars == <<pred, lb, tp, run, rc, invocations, recounts, applied, aborts,
               completions, overlapped, contended, recounted>>

\* Everything but the records of the pure functions' calls.
storeVars == <<boardVars, results>>

Runs == {1, 2}

IdleRun ==
    [pc |-> "idle", race_id |-> "r1", season |-> "2025", has_sprint |-> FALSE,
     predictions |-> <<>>, k |-> 1, total_race_points |-> 0, lb_resp |-> NoItem,
     race_found |-> TRUE, error |-> "none", status |-> "none",
     last_evaluated_key |-> <<>>, pages |-> 0, scored |-> <<>>,
     processed_count |-> None]

IdleSweep ==
    [pc |-> "idle", user_id |-> "u1", season |-> "2025", total_points |-> 0,
     races_count |-> 0, quiet |-> FALSE, rows |-> <<>>, outcome |-> "none"]

\* Every order in which a query may return the members of S.
Orders(S) ==
    {q \in [1..Cardinality(S) -> S] : \A i, j \in DOMAIN q : q[i] = q[j] => i = j}

\* No copy script is running; 'done' holds the runs that ended.
IdleCopy ==
    [pc |-> "idle", script |-> "none", source |-> "none", target |-> "none",
     flag |-> FALSE, rows |-> <<>>, copied |-> 0, skipped |-> 0, done |-> {},
     runs |-> 0]

\* deleteAccount.handler was never invoked.
NoAccount == [pc |-> "none"]

\* No invocation, no sweep, no call and no copy yet.
InitOthers ==
    /\ run = [i \in Runs |-> IdleRun]
    /\ rc = IdleSweep
    /\ invocations = 0
    /\ recounts = 0
    /\ applied = [u \in Users |-> [r \in Races |-> 0]]
    /\ aborts = [r \in Races |-> 0]
    /\ completions = [r \in Races |-> 0]
    /\ overlapped = FALSE
    /\ contended = [u \in Users |-> FALSE]
    /\ recounted = [s \in Seasons |-> [u \in Users |-> "never"]]
    /\ results = [items |-> [r \in Races |-> NoItem], now |-> 0,
                  status |-> "none"]
    /\ codec = <<>>
    /\ scoring = NoScoring
    /\ copy = IdleCopy

\* No invocation, no sweep and no call yet.
InitLocals == InitOthers /\ account = NoAccount

\* The prediction items and the updater's entries before any race is scored,
\* with the prediction items of 'bad' (pairs of <<race, user>> and a field)
\* lacking that field.
InitItems(bad) ==
    /\ pred = [r \in Races |-> [u \in Users |->
                  IF ~HasPrediction(r, u) THEN NoItem
                  ELSE IF \E b \in bad : b[1] = <<r, u>>
                  THEN [NewPredictionItem(r, u) EXCEPT
                          !.missing = (CHOOSE b \in bad : b[1] = <<r, u>>)[2]]
                  ELSE NewPredictionItem(r, u)]]
    /\ \E missing \in SUBSET {"u2"} :
          lb = [s \in Seasons |-> [u \in Users |->
                  IF u \in missing THEN NoItem ELSE NewLeaderboardItem(u)]]

\* The table before any race is scored, with the prediction items of 'bad'
\* (pairs of <<race, user>> and a field) lacking that field.
InitWith(bad) ==
    /\ InitItems(bad)
    /\ \E prior \in PriorTotals :
          tp = [s \in Seasons |-> [u \in Users |->
                  TotalPointsItem(u, s, "LEADERBOARD", prior[1], prior[2])]]
    /\ InitLocals

\* Every prediction item well-formed.
Init == InitWith({})

\* At most one prediction item malformed.
InitErrors == \E bad \in {{}} \cup {{b} : b \in Malformable} : InitWith(bad)

\* ------------------------------------------- update_scores.handler

InFlight(i) == run[i].pc \in {"score", "read", "write"}

\* One more prediction item of u was written: what the sweep summed is stale.
Touched(u) ==
    [s \in Seasons |-> [v \in Users |->
        IF v = u /\ recounted[s][v] = "fresh" THEN "stale" ELSE recounted[s][v]]]

\* Lines 160-208: the event is read, has_sprint is fetched from the race item
\* (False when there is no race item, lines 186-187) and every prediction of
\* the race is loaded, in the order the query gives.
Begin(i, r, predictions, race_found) ==
    /\ run[i].pc = "idle"
    /\ invocations < MaxInvocations
    /\ predictions \in Orders({u \in Users : pred[r][u].exists})
    /\ run' = [run EXCEPT ![i] =
                    [IdleRun EXCEPT
                       !.pc = IF predictions = <<>> THEN "done" ELSE "score",
                       !.race_id = r, !.season = SeasonOf(r),
                       !.has_sprint = IF race_found THEN HasSprintOf(r)
                                      ELSE FALSE,
                       !.predictions = predictions,
                       !.race_found = race_found,
                       !.status = IF predictions = <<>> THEN "SCORES_UPDATED"
                                  ELSE "none",
                       !.processed_count = IF predictions = <<>> THEN 0
                                           ELSE None]]
    /\ invocations' = invocations + 1
    /\ overlapped' = (overlapped \/ \E j \in Runs \ {i} : InFlight(j))
    /\ completions' = IF predictions = <<>>
                      THEN [completions EXCEPT ![r] = @ + 1] ELSE completions
    /\ UNCHANGED <<results, codec, scoring, copy, account, aborts, pred, lb, tp, rc,
                   recounts, applied, recounted, contended>>

\* An invocation for a race whose race item exists.
Invoke(i, r, predictions) == Begin(i, r, predictions, TRUE)

\* An invocation for a race that has no race item.
InvokeWithoutRace(i, r, predictions) == Begin(i, r, predictions, FALSE)

\* Lines 170-175: an invocation whose event has no result raises ValueError
\* before anything is read or written.
InvokeWithoutResult(i, r) ==
    /\ run[i].pc = "idle"
    /\ invocations < MaxInvocations
    /\ run' = [run EXCEPT ![i] =
                    [IdleRun EXCEPT !.pc = "failed", !.race_id = r,
                                    !.season = SeasonOf(r),
                                    !.error = "ValueError"]]
    /\ invocations' = invocations + 1
    /\ UNCHANGED <<results, codec, scoring, copy, account, aborts, pred, lb, tp, rc,
                   recounts, applied, completions, overlapped, contended, recounted>>

\* A slip in line 233: the points are added to the item's (ADD for SET).
PredictionAfterAdd(item, points, user_id) ==
    LET sum == (IF item.points = None THEN 0 ELSE item.points) + points
    IN  [item EXCEPT !.points = sum,
                     !.byLeaderboardSK =
                         LeaderboardSK(get_padded_points(sum), user_id)]

\* A slip in lines 231-239: the item is put anew, with the scores alone.
PredictionAfterPut(item, points, user_id) ==
    [item EXCEPT !.points = points,
                 !.byLeaderboardSK =
                     LeaderboardSK(get_padded_points(points), user_id),
                 !.prediction = [@ EXCEPT !.gridOrder = <<>>]]

\* Lines 227-239: update_item SETs points, byLeaderboardSK and updatedAt on
\* the prediction item, and leaves its other attributes.
PredictionAfter(item, points, user_id) ==
    [item EXCEPT !.points = points,
                 !.byLeaderboardSK =
                     LeaderboardSK(get_padded_points(points), user_id)]

\* Lines 212-239: the prediction is scored and its item gets points,
\* byLeaderboardSK and updatedAt. (The forecast is read from the item as it is
\* now: no operation changes an item's forecast after the query.)
ScorePrediction(i) ==
    /\ run[i].pc = "score"
    /\ pred[run[i].race_id][run[i].predictions[run[i].k]].missing = "none"
    /\ LET r == run[i].race_id
           user_id == run[i].predictions[run[i].k]
           points == total_race_points(pred[r][user_id].prediction,
                                       RaceResultOf(r), run[i].has_sprint)
       IN  /\ pred' = [pred EXCEPT ![r][user_id] =
                        PredictionAfter(@, points, user_id)]
           /\ run' = [run EXCEPT ![i].total_race_points = points,
                                 ![i].scored = Append(@, user_id),
                                 ![i].pc = "read"]
           /\ recounted' = Touched(user_id)
           /\ rc' = IF rc.pc = "update" /\ rc.user_id = user_id
                    THEN [rc EXCEPT !.quiet = FALSE] ELSE rc
    /\ UNCHANGED <<results, codec, scoring, copy, account, aborts, lb, tp, invocations,
                   recounts, applied, completions, overlapped, contended>>

\* Line 249: lb_resp = table.get_item(...)
ReadEntry(i) ==
    /\ run[i].pc = "read"
    /\ run' = [run EXCEPT
                 ![i].lb_resp = lb[run[i].season][run[i].predictions[run[i].k]],
                 ![i].pc = "write"]
    /\ contended' =
          IF \E j \in Runs \ {i} :
                /\ run[j].pc = "write"
                /\ run[j].season = run[i].season
                /\ run[j].predictions[run[j].k] = run[i].predictions[run[i].k]
          THEN [contended EXCEPT ![run[i].predictions[run[i].k]] = TRUE]
          ELSE contended
    /\ UNCHANGED <<results, codec, scoring, copy, account, aborts, pred, lb, tp, rc,
                   invocations, recounts, applied, completions, overlapped,
                   recounted>>

\* A slip in line 253: the race's points replace the previous total.
new_total_overwrite(lb_item, race_points) == race_points

\* Line 253
new_total(lb_item, race_points) == lb_item.totalPoints + race_points

\* Line 254
new_count(lb_item) == lb_item.numberOfRaces + 1

\* Lines 256-257
new_lb_sk(total, user_id) == LeaderboardSK(get_padded_points(total), user_id)

\* A slip in lines 256-266: the sort key is left as it was read.
LeaderboardAfterStaleKey(current, lb_resp, user_id, race_points) ==
    IF lb_resp.exists
    THEN [exists |-> TRUE,
          totalPoints |-> lb_resp.totalPoints + race_points,
          numberOfRaces |-> lb_resp.numberOfRaces + 1,
          byLeaderboardSK |-> lb_resp.byLeaderboardSK]
    ELSE current

\* Lines 269-274 changed to create the missing entry instead of skipping it.
LeaderboardAfterCreate(current, lb_resp, user_id, race_points) ==
    [exists |-> TRUE,
     totalPoints |-> (IF lb_resp.exists THEN lb_resp.totalPoints ELSE 0)
                     + race_points,
     numberOfRaces |-> (IF lb_resp.exists THEN lb_resp.numberOfRaces ELSE 0) + 1,
     byLeaderboardSK |->
         LeaderboardSK(get_padded_points(
             (IF lb_resp.exists THEN lb_resp.totalPoints ELSE 0) + race_points),
             user_id)]

\* Lines 250-274: what the leaderboard item is after the branch on
\* "Item" in lb_resp. update_item SETs the three attributes on the item (and
\* would create it); with no item in the response nothing is written.
LeaderboardAfter(current, lb_resp, user_id, race_points) ==
    IF lb_resp.exists
    THEN [exists |-> TRUE,
          totalPoints |-> new_total(lb_resp, race_points),
          numberOfRaces |-> new_count(lb_resp),
          byLeaderboardSK |-> new_lb_sk(new_total(lb_resp, race_points), user_id)]
    ELSE current

\* Lines 250-274, then the loop goes on to the next prediction or ends.
WriteEntry(i) ==
    /\ run[i].pc = "write"
    /\ LET user_id == run[i].predictions[run[i].k]
           s == run[i].season
           last == run[i].k = Len(run[i].predictions)
       IN  /\ lb' = [lb EXCEPT ![s][user_id] =
                        LeaderboardAfter(@, run[i].lb_resp, user_id,
                                         run[i].total_race_points)]
           /\ applied' = IF run[i].lb_resp.exists
                         THEN [applied EXCEPT ![user_id][run[i].race_id] = @ + 1]
                         ELSE applied
           /\ run' = [run EXCEPT ![i].k = @ + 1,
                                 ![i].pc = IF last THEN "done" ELSE "score",
                                 ![i].status = IF last THEN "SCORES_UPDATED"
                                               ELSE @,
                                 ![i].processed_count =
                                     IF last THEN Len(run[i].predictions)
                                     ELSE @]
           /\ completions' = IF last
                             THEN [completions EXCEPT ![run[i].race_id] = @ + 1]
                             ELSE completions
    /\ UNCHANGED <<results, codec, scoring, copy, account, aborts, pred, tp, rc, invocations,
                   recounts, overlapped, contended, recounted>>

\* Lines 276-282: the invocation returns SCORES_UPDATED.
Return(i) ==
    /\ run[i].pc = "done"
    /\ run' = [run EXCEPT ![i] = IdleRun]
    /\ UNCHANGED <<results, codec, scoring, copy, account, aborts, pred, lb, tp, rc,
                   invocations, recounts, applied, completions, overlapped, contended,
                   recounted>>

\* The invocation is cut off (a Lambda timeout) between two store operations;
\* what it wrote stays written.
Abort(i) ==
    /\ InFlight(i)
    /\ run' = [run EXCEPT ![i] = IdleRun]
    /\ aborts' = [aborts EXCEPT ![run[i].race_id] = @ + 1]
    /\ UNCHANGED <<results, codec, scoring, copy, account, pred, lb, tp, rc, invocations,
                   recounts, applied, completions, overlapped, contended, recounted>>

\* Lines 212-217 and 59: pred_item["userId"], pred_item["prediction"] or
\* pred["position"] raises KeyError on an item that lacks the field; handler
\* has no try, so the exception ends the invocation.
RaiseKeyError(i) ==
    /\ run[i].pc = "score"
    /\ pred[run[i].race_id][run[i].predictions[run[i].k]].missing /= "none"
    /\ run' = [run EXCEPT ![i].pc = "failed", ![i].error = "KeyError"]
    /\ UNCHANGED <<results, codec, scoring, copy, account, aborts, pred, lb, tp, rc,
                   invocations, recounts, applied, completions, overlapped, contended,
                   recounted>>

\* Lines 231 and 259: update_item raises ClientError (the store refuses or
\* does not answer); nothing is written and the exception ends the
\* invocation.
WriteFails(i) ==
    /\ \/ /\ run[i].pc = "score"
          /\ pred[run[i].race_id][run[i].predictions[run[i].k]].missing = "none"
       \/ /\ run[i].pc = "write"
          /\ run[i].lb_resp.exists
    /\ run' = [run EXCEPT ![i].pc = "failed", ![i].error = "ClientError"]
    /\ UNCHANGED <<results, codec, scoring, copy, account, aborts, pred, lb, tp, rc,
                   invocations, recounts, applied, completions, overlapped, contended,
                   recounted>>

\* The exception leaves handler: the invocation is over.
Raised(i) ==
    /\ run[i].pc = "failed"
    /\ run' = [run EXCEPT ![i] = IdleRun]
    /\ UNCHANGED <<results, codec, scoring, copy, account, aborts, pred, lb, tp, rc,
                   invocations, recounts, applied, completions, overlapped, contended,
                   recounted>>

\* ------------------------------------- recount_points/main.py (the sweep)

\* What the index apexEntitiesByUser_idAndCreatedAt holds for user_id: every
\* item that carries that user_id, of whatever entity type and season.
UserIndex(user_id) ==
    {[entityType |-> pred[r][user_id].entityType, key |-> <<"prediction", r>>,
      points |-> pred[r][user_id].points] :
        r \in {x \in Races : pred[x][user_id].exists}}
    \cup
    {[entityType |-> tp[s][user_id].entityType, key |-> <<"user", s>>,
      points |-> tp[s][user_id].points] :
        s \in {x \in Seasons : tp[x][user_id].exists}}

RECURSIVE SumItems(_)
\* Lines 44-51 over every page: total_points += int(item.get("points", 0));
\* races_count += 1. The result is <<total_points, races_count>>.
SumItems(items) ==
    IF items = {} THEN <<0, 0>>
    ELSE LET item == CHOOSE x \in items : TRUE
             rest == SumItems(items \ {item})
             raw_points == IF item.points = None THEN 0 ELSE item.points
         IN  <<rest[1] + raw_points, rest[2] + 1>>

\* Lines 33-37: the query's FilterExpression. The season argument takes no
\* part in it.
QueryFilter(item, season) == item.entityType = "PREDICTION"

sum_user_prediction_points(user_id, season) ==
    SumItems({item \in UserIndex(user_id) : QueryFilter(item, season)})

\* A slip in lines 79-92: the ConditionExpression left out, so that the
\* update creates the item when there is none and writes an item of any type.
update_leaderboard_upsert(item, total_points, races_count) ==
    IF item.exists
    THEN [item EXCEPT !.points = total_points, !.races = races_count]
    ELSE [exists |-> TRUE, points |-> total_points, races |-> races_count]

\* A slip in line 85: the update adds to the stored values (ADD for SET).
update_leaderboard_add(item, total_points, races_count) ==
    IF item.exists /\ item.entityType = "LEADERBOARD"
    THEN [item EXCEPT !.points = @ + total_points, !.races = @ + races_count]
    ELSE item

\* Lines 79-92: SET points, races, updatedAt under the condition
\* entityType = LEADERBOARD; a failed condition is skipped (lines 96-98).
update_leaderboard_total_points(item, total_points, races_count) ==
    IF item.exists /\ item.entityType = "LEADERBOARD"
    THEN [item EXCEPT !.points = total_points, !.races = races_count]
    ELSE item

\* Lines 103-135: the user_id of every LEADERBOARD item whose season
\* attribute is the season.
list_leaderboard_users_for_season(season) ==
    {u \in Users : \E s \in Seasons :
        /\ tp[s][u].exists
        /\ tp[s][u].season = season
        /\ tp[s][u].entityType = "LEADERBOARD"}

\* Lines 155-164: one iteration of main's loop begins. The user is one of
\* the leaderboard items listed for the season (lines 150-152; no operation
\* here changes an item's season or entity type after the listing), and the
\* user's prediction points are summed.
SweepSum(user_id, season) ==
    /\ rc.pc = "idle"
    /\ recounts < MaxRecounts
    /\ user_id \in list_leaderboard_users_for_season(season)
    /\ LET totals == sum_user_prediction_points(user_id, season)
       IN  rc' = [IdleSweep EXCEPT
                    !.pc = "update", !.user_id = user_id, !.season = season,
                    !.total_points = totals[1], !.races_count = totals[2],
                    !.quiet = TRUE]
    /\ recounts' = recounts + 1
    /\ UNCHANGED <<results, codec, scoring, copy, account, aborts, pred, lb, tp, run,
                   invocations, applied, completions, overlapped, contended, recounted>>

\* Lines 166-168: the iteration ends with the update of the user's
\* TOTALPOINTS item.
SweepUpdate ==
    /\ rc.pc = "update"
    /\ LET written == tp[rc.season][rc.user_id].exists
                      /\ tp[rc.season][rc.user_id].entityType = "LEADERBOARD"
       IN  /\ tp' = [tp EXCEPT ![rc.season][rc.user_id] =
                        update_leaderboard_total_points(@, rc.total_points,
                                                        rc.races_count)]
           /\ recounted' = IF written
                           THEN [recounted EXCEPT ![rc.season][rc.user_id] =
                                    IF rc.quiet THEN "fresh" ELSE "stale"]
                           ELSE recounted
    /\ rc' = IdleSweep
    /\ UNCHANGED <<results, codec, scoring, copy, account, aborts, pred, lb, run,
                   invocations, recounts, applied, completions, overlapped, contended>>

\* ------------------------------------ recount_points: one run of main

\* What is found at a user's TOTALPOINTS key: the LEADERBOARD item, an item
\* of another entity type, or nothing.
TargetKinds == {"LEADERBOARD", "OTHER", "missing"}

\* The table after every race was scored, with any kind of item at each
\* user's TOTALPOINTS keys.
InitSweep ==
    /\ pred = [r \in Races |-> [u \in Users |->
                  IF ~HasPrediction(r, u) THEN NoItem
                  ELSE PredictionAfter(
                          NewPredictionItem(r, u),
                          total_race_points(PredictionOf(r, u), RaceResultOf(r),
                                            HasSprintOf(r)), u)]]
    /\ lb = [s \in Seasons |-> [u \in Users |-> NewLeaderboardItem(u)]]
    /\ \E kind \in [Users -> TargetKinds], prior \in PriorTotals :
          tp = [s \in Seasons |-> [u \in Users |->
                  IF kind[u] = "missing" THEN NoItem
                  ELSE TotalPointsItem(u, s, kind[u], prior[1], prior[2])]]
    /\ InitLocals

\* Lines 150-152: main lists the season's LEADERBOARD items; each row names
\* a user_id. The filter of lines 120-124 tests season and entityType only,
\* so besides the TOTALPOINTS items any other LEADERBOARD item of the season
\* is a row: 'rows' holds the listed users in the order of the listing.
SweepList(season, rows) ==
    /\ rc.pc = "idle"
    /\ recounts < MaxRecounts
    /\ \E S \in SUBSET Users :
          /\ list_leaderboard_users_for_season(season) \subseteq S
          /\ rows \in Orders(S)
    /\ rc' = [IdleSweep EXCEPT !.pc = "loop", !.season = season, !.rows = rows]
    /\ recounts' = recounts + 1
    /\ UNCHANGED <<results, codec, scoring, copy, account, aborts, pred, lb, tp, run,
                   invocations, applied, completions, overlapped, contended,
                   recounted>>

\* Lines 155-164: the loop takes the next row and sums the user's
\* prediction points.
SweepRow ==
    /\ rc.pc = "loop"
    /\ rc.rows /= <<>>
    /\ LET user_id == Head(rc.rows)
           totals == sum_user_prediction_points(user_id, rc.season)
       IN  rc' = [rc EXCEPT !.pc = "update", !.user_id = user_id,
                            !.total_points = totals[1],
                            !.races_count = totals[2],
                            !.rows = Tail(@), !.quiet = TRUE]
    /\ UNCHANGED <<results, codec, scoring, copy, account, aborts, pred, lb, tp, run,
                   invocations, recounts, applied, completions, overlapped,
                   contended, recounted>>

\* Lines 166-168 with 78-98: the conditional update_item. It is applied, or
\* its condition fails and the ConditionalCheckFailedException is caught and
\* printed; either way the loop goes on.
SweepWrite ==
    /\ rc.pc = "update"
    /\ LET written == tp[rc.season][rc.user_id].exists
                      /\ tp[rc.season][rc.user_id].entityType = "LEADERBOARD"
       IN  /\ tp' = [tp EXCEPT ![rc.season][rc.user_id] =
                        update_leaderboard_total_points(@, rc.total_points,
                                                        rc.races_count)]
           /\ recounted' = IF written
                           THEN [recounted EXCEPT ![rc.season][rc.user_id] =
                                    "fresh"]
                           ELSE recounted
           /\ rc' = [rc EXCEPT !.pc = "loop",
                               !.outcome = IF written THEN "updated"
                                           ELSE "skipped"]
    /\ UNCHANGED <<results, codec, scoring, copy, account, aborts, pred, lb, run,
                   invocations, recounts, applied, completions, overlapped,
                   contended>>

\* Lines 96-100: update_item fails with another ClientError, which is raised
\* again; main does not catch it, so the run ends there.
SweepWriteFails ==
    /\ rc.pc = "update"
    /\ rc' = [rc EXCEPT !.pc = "aborted", !.outcome = "raised"]
    /\ UNCHANGED <<results, codec, scoring, copy, account, aborts, pred, lb, tp, run,
                   invocations, recounts, applied, completions, overlapped,
                   contended, recounted>>

\* The run of main is over: every row was processed, or an error ended it.
SweepEnd ==
    /\ \/ rc.pc = "loop" /\ rc.rows = <<>>
       \/ rc.pc = "aborted"
    /\ rc' = IdleSweep
    /\ UNCHANGED <<results, codec, scoring, copy, account, aborts, pred, lb, tp, run,
                   invocations, recounts, applied, completions, overlapped,
                   contended, recounted>>

\* -------------- copy_leaderboard, copy_race_predictions, change_season

CopyScripts == {"copy_leaderboard", "copy_race_predictions", "change_season"}

\* change_season.py, lines 7-8
SEASON_FROM == "2025"

SEASON_TO == "2026"

\* A slip in the put_item calls: the ConditionExpression left out.
unconditional_put(current, item) == item

\* table.put_item(Item=item, ConditionExpression="attribute_not_exists(PK)
\* AND attribute_not_exists(SK)"): what is stored at the item's key after the
\* call. With an item at the key the call raises
\* ConditionalCheckFailedException and stores nothing.
conditional_put(current, item) == IF current.exists THEN current ELSE item

\* copy_leaderboard.py, lines 26-47: the item 'put'.
put_leaderboard_clone(it, target_season, clone_points) ==
    TotalPointsItem(it.user_id, target_season, "LEADERBOARD",
                    IF clone_points THEN it.points ELSE 0,
                    IF clone_points THEN it.races ELSE 0)

\* copy_race_predictions.py, lines 26-62: the item 'put' (target_season is
\* None here, so the season is the source item's).
put_prediction_clone(item, target_race_id, target_season, reset_points) ==
    [NewPredictionItem(target_race_id, item.user_id) EXCEPT
        !.prediction = item.prediction,
        !.season = IF target_season /= None THEN target_season ELSE item.season,
        !.points = IF ~reset_points /\ item.points /= None THEN item.points
                   ELSE 0]

\* change_season.py, lines 30-46: the copy of a TOTALPOINTS item; every
\* attribute but the key, season and points is kept.
make_2026_copy(item) == [item EXCEPT !.season = SEASON_TO, !.points = 0]

\* The users of the items a script lists for its source: the LEADERBOARD
\* items of the season (copy_leaderboard.py, 17-23), the items of the race
\* (copy_race_predictions.py, 17-23), the TOTALPOINTS items of the season
\* (change_season.py, 49-70).
ListedFor(script, source) ==
    IF script = "copy_race_predictions"
    THEN {u \in Users : pred[source][u].exists}
    ELSE IF script = "copy_leaderboard"
    THEN list_leaderboard_users_for_season(source)
    ELSE {u \in Users : \E x \in Seasons :
              tp[x][u].exists /\ tp[x][u].season = source}

\* main of a script starts: it reads its settings and lists the source's
\* items (rows: their users, in the order of the listing).
CopyList(script, source, target, flag, rows) ==
    /\ copy.pc = "idle"
    /\ copy.runs < MaxCopies
    /\ rows \in Orders(ListedFor(script, source))
    /\ copy' = [copy EXCEPT !.pc = "loop", !.script = script,
                            !.source = source, !.target = target,
                            !.flag = flag, !.rows = rows, !.runs = @ + 1]
    /\ UNCHANGED <<storeVars, codec, scoring, account>>

\* What the loop's counters are after a put: copied += 1, or the exception
\* is caught and the item passed over.
AfterPut(rejected) ==
    [copy EXCEPT !.rows = Tail(@),
                 !.copied = IF rejected THEN @ ELSE @ + 1,
                 !.skipped = IF rejected THEN @ + 1 ELSE @]

\* copy_leaderboard.py, lines 68-73: one iteration of main's loop.
CopyLeaderboardPut ==
    /\ copy.pc = "loop" /\ copy.script = "copy_leaderboard"
    /\ copy.rows /= <<>>
    /\ LET it == tp[copy.source][Head(copy.rows)]
           put == put_leaderboard_clone(it, copy.target, copy.flag)
       IN  /\ tp' = [tp EXCEPT ![copy.target][it.user_id] =
                        conditional_put(@, put)]
           /\ copy' = AfterPut(tp[copy.target][it.user_id].exists)
    /\ UNCHANGED <<pred, lb, run, rc, invocations, recounts, applied, aborts,
                   completions, overlapped, contended, recounted, results,
                   codec, scoring, account>>

\* copy_race_predictions.py, lines 85-91: one iteration of main's loop.
CopyPredictionPut ==
    /\ copy.pc = "loop" /\ copy.script = "copy_race_predictions"
    /\ copy.rows /= <<>>
    /\ LET item == pred[copy.source][Head(copy.rows)]
           put == put_prediction_clone(item, copy.target, None, copy.flag)
       IN  /\ pred' = [pred EXCEPT ![copy.target][item.user_id] =
                          conditional_put(@, put)]
           /\ copy' = AfterPut(pred[copy.target][item.user_id].exists)
    /\ UNCHANGED <<lb, tp, run, rc, invocations, recounts, applied, aborts,
                   completions, overlapped, contended, recounted, results,
                   codec, scoring, account>>

\* change_season.py, lines 78-90: one iteration of main's loop.
ChangeSeasonPut ==
    /\ copy.pc = "loop" /\ copy.script = "change_season"
    /\ copy.rows /= <<>>
    /\ LET item == tp[copy.source][Head(copy.rows)]
           new_item == make_2026_copy(item)
       IN  /\ tp' = [tp EXCEPT ![SEASON_TO][item.user_id] =
                        conditional_put(@, new_item)]
           /\ copy' = AfterPut(tp[SEASON_TO][item.user_id].exists)
    /\ UNCHANGED <<pred, lb, run, rc, invocations, recounts, applied, aborts,
                   completions, overlapped, contended, recounted, results,
                   codec, scoring, account>>

\* The loop is over: main prints its counts and the script ends.
CopyEnd ==
    /\ copy.pc = "loop"
    /\ copy.rows = <<>>
    /\ copy' = [IdleCopy EXCEPT
                  !.runs = copy.runs,
                  !.done = copy.done
                           \cup {<<copy.script, copy.source, copy.target>>}]
    /\ UNCHANGED <<storeVars, codec, scoring, account>>

\* The table a copy script may find: every prediction item unscored, and at
\* each TOTALPOINTS key a LEADERBOARD item or nothing.
InitCopy ==
    /\ InitItems({})
    /\ \E present \in SUBSET (Seasons \X Users) :
          tp = [s \in Seasons |-> [u \in Users |->
                  IF <<s, u>> \in present
                  THEN TotalPointsItem(u, s, "LEADERBOARD", 500, 9)
                  ELSE NoItem]]
    /\ InitLocals

\* --------------------------------------- insert_race_results.handler

\* The result payloads an event may carry.
ResultCandidates == {RaceResultOf(r) : r \in Races}

\* Lines 54-67: put_item writes the whole item, whatever was stored under
\* the key {category}#{season} / RESULTS#{race_id}.
ResultAfterPut(item, r, result_data, timestamp) ==
    [exists |-> TRUE, entityType |-> "RESULT", raceId |-> r,
     results |-> result_data, season |-> SeasonOf(r),
     createdAt |-> timestamp, updatedAt |-> timestamp]

\* Lines 31-79: a call with all four fields stores the result and returns
\* RESULT_INSERTED.
InsertResult(r, result_data) ==
    /\ results.now < MaxInserts
    /\ results' = [items |-> [results.items EXCEPT ![r] =
                                 ResultAfterPut(@, r, result_data,
                                                results.now + 1)],
                   now |-> results.now + 1,
                   status |-> "RESULT_INSERTED"]
    /\ UNCHANGED <<boardVars, codec, scoring, copy, account>>

\* Lines 36-39: a call whose event lacks a field raises ValueError before
\* anything is written.
InsertRejected ==
    /\ results.now < MaxInserts
    /\ results' = [results EXCEPT !.now = @ + 1, !.status = "ValueError"]
    /\ UNCHANGED <<boardVars, codec, scoring, copy, account>>

\* ------------------------------------------- calls of get_padded_points

RECURSIVE Pow10(_)
Pow10(k) == IF k = 0 THEN 1 ELSE 10 * Pow10(k - 1)

Near(c) == (c - MaxDelta)..(c + MaxDelta)

\* The totals get_padded_points is called with: around 0, around M, around
\* every total where M - points changes its number of digits, and two totals
\* far outside 0..M.
CodecInputs ==
    UNION {Near(M - Pow10(k)) : k \in 0..(Width - 1)}
    \cup Near(M) \cup {-(9 * M), 11 * M}

\* Lines 13-19: one call. The function has no raise statement: for an integer
\* argument it returns the string of line 19.
Encode(points) ==
    /\ codec' = <<[points |-> points, raised |-> FALSE,
                   padded |-> get_padded_points(points)]>>
                 \o (IF codec = <<>> THEN <<>> ELSE <<codec[1]>>)
    /\ UNCHANGED <<storeVars, scoring, copy, account>>

\* ----------------------------------------- scorings of one prediction

\* The gridOrder of the sample event of insert_race_results.py: the first
\* twelve finishers.
SampleGrid ==
    <<Entry(1, 1), Entry(4, 2), Entry(16, 3), Entry(44, 4), Entry(63, 5),
      Entry(81, 6), Entry(14, 7), Entry(18, 8), Entry(55, 9), Entry(23, 10),
      Entry(10, 11), Entry(31, 12)>>

\* A sprint classification; driver 27 is in it and not in SampleGrid.
SampleSprint == <<Entry(16, 1), Entry(4, 2), Entry(1, 3), Entry(27, 4)>>

NoAdditional == [pole |-> None, fastestLap |-> None, positionsGained |-> None]

\* Every list of at most MaxPicks picks: the k-th entry predicts position k
\* for one of the drivers (None: the entry names no driver).
PickLists(drivers) ==
    UNION {{[k \in 1..n |-> Entry(f[k], k)] : f \in [1..n -> drivers]} :
              n \in 0..MaxPicks}

ScoringInput(grid, sprint, add_pred, actual_sprint, add_actual, has_sprint) ==
    [predictions |-> [gridOrder |-> grid, sprintPositions |-> sprint,
                      additionalPredictions |-> add_pred],
     race_results |-> [gridOrder |-> SampleGrid,
                       sprintPositions |-> actual_sprint,
                       additionalPredictions |-> add_actual],
     has_sprint |-> has_sprint]

\* Predicted grids against the sample result: drivers at, near and far from
\* the predicted position, a driver the result does not list (27), no driver.
GridInputs ==
    {ScoringInput(grid, <<>>, NoAdditional, <<>>, NoAdditional, FALSE) :
        grid \in PickLists({None, 1, 4, 16, 44, 10, 27})}

\* Predicted sprints, with and without a sprint in the race and in the
\* result, and a pole pick of driver 27.
SprintInputs ==
    {ScoringInput(grid, sprint, [NoAdditional EXCEPT !.pole = x[1]],
                  actual_sprint, [NoAdditional EXCEPT !.pole = x[2]], x[3]) :
        grid \in {<<>>, <<Entry(1, 1), Entry(16, 2)>>},
        sprint \in PickLists({None, 16, 1, 27}),
        actual_sprint \in {<<>>, SampleSprint},
        x \in {None, 27} \X {None, 27} \X BOOLEAN}

\* Picks for pole, fastestLap and positionsGained: a driver of the result
\* (1), a driver only the prediction lists (27), a driver no list holds (99),
\* no pick.
AdditionalInputs ==
    {ScoringInput(<<Entry(1, 1), Entry(4, 2), Entry(27, 3)>>, <<>>,
                  [pole |-> p[1], fastestLap |-> p[2], positionsGained |-> p[3]],
                  <<>>,
                  [pole |-> a[1], fastestLap |-> a[2], positionsGained |-> a[3]],
                  FALSE) :
        p \in {None, 1, 27, 99} \X {None, 1, 27, 99} \X {None, 1, 27, 99},
        a \in {None, 1, 27, 99} \X {None, 1, 27, 99} \X {None, 1, 27, 99}}

\* A predicted top ten that has the result's driver at exactly the positions
\* of 'correct'; at the other positions, by 'miss': the driver one place
\* behind, a driver the result does not list, no driver, or no entry at all.
TopTenGrid(correct, miss) ==
    LET entry(n) ==
            IF n \in correct THEN Entry(SampleGrid[n].driverNumber, n)
            ELSE IF miss = "behind" THEN Entry(SampleGrid[n + 1].driverNumber, n)
            ELSE IF miss = "unlisted" THEN Entry(99, n)
            ELSE Entry(None, n)
    IN  IF miss = "left out"
        THEN SelectSeq([n \in 1..10 |-> entry(n)],
                       LAMBDA e : e.position \in correct)
        ELSE [n \in 1..10 |-> entry(n)]

TopTenInputs ==
    {ScoringInput(TopTenGrid(correct, miss), <<>>, NoAdditional, <<>>,
                  NoAdditional, FALSE) :
        correct \in SUBSET (1..10),
        miss \in {"behind", "unlisted", "no driver", "left out"}}

\* A result that classifies a driver numbered 0 (falsy in lines 37, 42 and
\* 79), in the grid and in the sprint.
ZeroGrid == <<Entry(0, 1), Entry(4, 2), Entry(16, 3)>>

ZeroSprint == <<Entry(5, 1), Entry(0, 2)>>

\* Picks of driver 0 and of drivers only one side lists (27: prediction
\* only; 4, 16: result only; 5: sprint only), with and without a sprint.
ZeroInputs ==
    {[predictions |-> [gridOrder |-> grid, sprintPositions |-> sprint,
                       additionalPredictions |-> [NoAdditional EXCEPT !.pole = p]],
      race_results |-> [gridOrder |-> ZeroGrid, sprintPositions |-> ZeroSprint,
                        additionalPredictions |-> [NoAdditional EXCEPT !.pole = 0]],
      has_sprint |-> h] :
        grid \in PickLists({0, 27}), sprint \in PickLists({0, 5}),
        p \in {None, 0}, h \in BOOLEAN}

ScoringInputs ==
    GridInputs \cup SprintInputs \cup AdditionalInputs \cup TopTenInputs
    \cup ZeroInputs

\* Lines 68 and 100: driver_points_map[dn] raises KeyError when a scored
\* pick's driver has no record in the map.
raises_key_error(predictions, race_results, has_sprint) ==
    LET drivers == all_driver_numbers(predictions, race_results, has_sprint)
        missing(preds, actuals, skipFalsy) ==
            \E k \in DOMAIN preds :
                /\ IF skipFalsy THEN Truthy(preds[k].driverNumber)
                   ELSE preds[k].driverNumber /= None
                /\ FirstIndex(actuals, "driverNumber", preds[k].driverNumber) /= 0
                /\ preds[k].driverNumber \notin drivers
    IN  \/ missing(predictions.gridOrder, race_results.gridOrder, FALSE)
        \/ /\ has_sprint
           /\ race_results.sprintPositions /= <<>>
           /\ predictions.sprintPositions /= <<>>
           /\ missing(predictions.sprintPositions,
                      race_results.sprintPositions, TRUE)

\* Lines 220-225 of handler for one prediction: calculate_driver_points,
\* calculate_bonus_points and their total.
Score(input) ==
    /\ scoring.pc = "none"
    /\ scoring' =
          [pc |-> "scored",
           predictions |-> input.predictions,
           race_results |-> input.race_results,
           has_sprint |-> input.has_sprint,
           raised |-> raises_key_error(input.predictions, input.race_results,
                                       input.has_sprint),
           driver_points |-> calculate_driver_points(
               input.predictions, input.race_results, input.has_sprint),
           correct |-> [n \in 1..10 |->
                           is_pos_correct(input.predictions,
                                          input.race_results, n)],
           bonus_points |-> calculate_bonus_points(input.predictions,
                                                   input.race_results),
           total_race_points |-> total_race_points(
               input.predictions, input.race_results, input.has_sprint)]
    /\ UNCHANGED <<storeVars, codec, copy, account>>

\* ----------------------------------------------------- the specifications

\* The order a query on PK = PREDICTION#<category>#<race_id> returns the
\* race's items in: ascending sort key.
SortedOrder(r) ==
    CHOOSE q \in Orders({u \in Users : pred[r][u].exists}) :
        \A a, b \in DOMAIN q : a < b => q[a] /= "u2"

\* A slip in lines 197-198: ExclusiveStartKey is never passed, so every
\* query starts from the first item again.
query_from_start(stored, exclusive_start_key, size) ==
    SubSeq(stored, 1, IF size < Len(stored) THEN size ELSE Len(stored))

\* table.query(**query_params), lines 196-201: the Items of one page, 'size'
\* of the stored items at most, starting after ExclusiveStartKey. A key is
\* <<user_id>>; <<>> is the absent (falsy) key of line 204.
query(stored, exclusive_start_key, size) ==
    LET start == IF exclusive_start_key = <<>> THEN 1
                 ELSE 1 + CHOOSE n \in DOMAIN stored :
                              <<stored[n]>> = exclusive_start_key
        end == IF start + size - 1 < Len(stored) THEN start + size - 1
               ELSE Len(stored)
    IN  SubSeq(stored, start, end)

\* Lines 160-193: an invocation validates its event, reads the race item
\* and is about to query the race's predictions page by page.
StartQuery(i, r) ==
    /\ run[i].pc = "idle"
    /\ invocations < MaxInvocations
    /\ run' = [run EXCEPT ![i] =
                    [IdleRun EXCEPT !.pc = "query", !.race_id = r,
                                    !.season = SeasonOf(r),
                                    !.has_sprint = HasSprintOf(r)]]
    /\ invocations' = invocations + 1
    /\ overlapped' = (overlapped \/ \E j \in Runs \ {i} : InFlight(j))
    /\ UNCHANGED <<results, codec, scoring, copy, account, aborts, pred, lb,
                   tp, rc, recounts, applied, completions, recounted,
                   contended>>

\* Lines 195-205: one turn of the query loop. The store returns a page of
\* 'size' items at most and a LastEvaluatedKey when items remain (or, with
\* 'more', when the page ended on the last item); without a key the loop
\* breaks and the for loop of line 211 begins.
QueryPage(i, size, more) ==
    /\ run[i].pc = "query"
    /\ run[i].pages < MaxPages
    /\ LET stored == SortedOrder(run[i].race_id)
           items == query(stored, run[i].last_evaluated_key, size)
           predictions == run[i].predictions \o items
           remain == items /= <<>> /\ items[Len(items)] /= stored[Len(stored)]
           last_evaluated_key ==
               IF remain \/ (more /\ items /= <<>>)
               THEN <<items[Len(items)]>> ELSE <<>>
           broke == last_evaluated_key = <<>>
       IN  /\ run' = [run EXCEPT
                        ![i].predictions = predictions,
                        ![i].last_evaluated_key = last_evaluated_key,
                        ![i].pages = @ + 1,
                        ![i].pc = IF ~broke THEN "query"
                                  ELSE IF predictions = <<>> THEN "done"
                                  ELSE "score",
                        ![i].status = IF broke /\ predictions = <<>>
                                      THEN "SCORES_UPDATED" ELSE @,
                        ![i].processed_count =
                            IF broke /\ predictions = <<>> THEN 0 ELSE @]
           /\ completions' = IF broke /\ predictions = <<>>
                             THEN [completions EXCEPT ![run[i].race_id] = @ + 1]
                             ELSE completions
    /\ UNCHANGED <<results, codec, scoring, copy, account, aborts, pred, lb,
                   tp, rc, invocations, recounts, applied, overlapped,
                   recounted, contended>>

\* The updater, one invocation at a time, with its query page by page.
NextPages ==
    \/ \E r \in Races : StartQuery(1, r)
    \/ \E size \in 1..Cardinality(Users), more \in BOOLEAN :
          QueryPage(1, size, more)
    \/ ScorePrediction(1)
    \/ ReadEntry(1)
    \/ WriteEntry(1)
    \/ Return(1)

SpecPages == Init /\ [][NextPages]_vars

\* The updater alone: two invocation slots, so invocations may overlap, and
\* the prediction items in any order.
Next ==
    \/ \E i \in Runs, r \in Races :
          \E predictions \in Orders({u \in Users : pred[r][u].exists}) :
              Invoke(i, r, predictions)
    \/ \E i \in Runs : ScorePrediction(i)
    \/ \E i \in Runs : ReadEntry(i)
    \/ \E i \in Runs : WriteEntry(i)
    \/ \E i \in Runs : Return(i)
    \/ \E i \in Runs : Abort(i)

Spec == Init /\ [][Next]_vars

\* The updater, one invocation at a time, together with the recount loop.
NextRecount ==
    \/ \E r \in Races : Invoke(1, r, SortedOrder(r))
    \/ ScorePrediction(1)
    \/ ReadEntry(1)
    \/ WriteEntry(1)
    \/ Return(1)
    \/ \E u \in Users, season \in Seasons : SweepSum(u, season)
    \/ SweepUpdate

SpecRecount == Init /\ [][NextRecount]_vars

\* The store as it is when only the pure functions are exercised.
InitPure ==
    /\ Init
    /\ \A s \in Seasons, u \in Users : lb[s][u].exists /\ tp[s][u].points = 0

\* The updater, one invocation at a time, with what can go wrong: no result
\* in the event, no race item, a malformed prediction item, a failing write.
NextErrors ==
    \/ \E r \in Races :
          \E predictions \in Orders({u \in Users : pred[r][u].exists}) :
              Invoke(1, r, predictions)
    \/ \E r \in Races :
          \E predictions \in Orders({u \in Users : pred[r][u].exists}) :
              InvokeWithoutRace(1, r, predictions)
    \/ \E r \in Races : InvokeWithoutResult(1, r)
    \/ ScorePrediction(1)
    \/ RaiseKeyError(1)
    \/ ReadEntry(1)
    \/ WriteEntry(1)
    \/ WriteFails(1)
    \/ Return(1)
    \/ Raised(1)

SpecErrors == InitErrors /\ [][NextErrors]_vars

\* Runs of the copy scripts, one after the other.
NextCopy ==
    \/ \E source \in Seasons, target \in Seasons, clone_points \in BOOLEAN :
          \E rows \in Orders(ListedFor("copy_leaderboard", source)) :
              CopyList("copy_leaderboard", source, target, clone_points, rows)
    \/ \E source \in Races, target \in Races, reset_points \in BOOLEAN :
          \E rows \in Orders(ListedFor("copy_race_predictions", source)) :
              CopyList("copy_race_predictions", source, target, reset_points,
                       rows)
    \/ \E rows \in Orders(ListedFor("change_season", SEASON_FROM)) :
          CopyList("change_season", SEASON_FROM, SEASON_TO, FALSE, rows)
    \/ CopyLeaderboardPut
    \/ CopyPredictionPut
    \/ ChangeSeasonPut
    \/ CopyEnd

SpecCopy == InitCopy /\ [][NextCopy]_vars

\* ------------------------------------------------- deleteAccount.handler

\* event["identity"]: the key absent (the default {} of line 104), null,
\* or a dictionary whose "sub" and "username" may be absent ("").
Identities ==
    {[kind |-> "absent", sub |-> "", username |-> ""],
     [kind |-> "null", sub |-> "", username |-> ""]}
    \cup {[kind |-> "dict", sub |-> s, username |-> n] :
            s \in {"", "sub-1"}, n \in {"", "name-1"}}

\* The range of line 82 with one batch only: the loop ends after the first
\* batch whatever the number of keys.
batch_loop_done_after_first(i, all_keys) == i > 0

\* Line 82, for i in range(0, len(all_keys), 25): no batch is left.
batch_loop_done(i, all_keys) == i >= Len(all_keys)

\* Lines 72-78 of batch_delete_items: the keys of the items, the first
\* occurrence of each, in order.
RECURSIVE unique_keys(_, _)
unique_keys(items, seen) ==
    IF items = <<>> THEN <<>>
    ELSE IF Head(items) \in seen THEN unique_keys(Tail(items), seen)
    ELSE <<Head(items)>> \o unique_keys(Tail(items), seen \cup {Head(items)})

\* The keys of a set of items as the list a query returns, in key order.
RECURSIVE KeyList(_)
KeyList(keys) ==
    IF keys = {} THEN <<>>
    ELSE LET k == CHOOSE x \in keys : \A y \in keys : x <= y
         IN  <<k>> \o KeyList(keys \ {k})

\* The elements of a list.
Range(list) == {list[n] : n \in DOMAIN list}

\* An invocation with identity 'id' for a user with g items in the byUser
\* index (keys 1..g) and the items 'main' under PK = USER#<userId>; key 1
\* is in both when g > 0, key g + 1 is in the main table only.
NewAccount(id, g, main) ==
    [pc |-> "start", identity |-> id, user_id |-> "", cognito_username |-> "",
     byUser |-> 1..g, main |-> main, stored |-> (1..g) \cup main,
     gsi_items |-> <<>>, main_items |-> <<>>, all_items |-> <<>>,
     all_keys |-> <<>>, i |-> 0, cognito |-> TRUE, deleted |-> "",
     failed |-> "none", error |-> "none", returned |-> FALSE]

InitAccount ==
    /\ InitItems({})
    /\ tp = [s \in Seasons |-> [u \in Users |->
               TotalPointsItem(u, s, "LEADERBOARD", 0, 0)]]
    /\ InitOthers
    /\ \E id \in Identities, g \in 0..MaxItems :
          \E main \in SUBSET {1, g + 1} :
              account = NewAccount(id, g, main)

\* What handler steps leave alone.
notAccount == <<boardVars, results, codec, scoring, copy>>

\* Lines 104-109: identity.get on a null identity raises AttributeError;
\* without "sub" the handler raises "Unauthorized"; both before the try.
Identify ==
    /\ account.pc = "start"
    /\ LET identity == account.identity
           user_id == identity.sub
           cognito_username == IF identity.username /= ""
                               THEN identity.username ELSE identity.sub
       IN  account' =
             IF identity.kind = "null"
             THEN [account EXCEPT !.pc = "raised", !.failed = "identity",
                                  !.error = "AttributeError"]
             ELSE IF user_id = ""
             THEN [account EXCEPT !.pc = "raised", !.failed = "identity",
                                  !.cognito_username = cognito_username,
                                  !.error = "Unauthorized"]
             ELSE [account EXCEPT !.pc = "query_gsi", !.user_id = user_id,
                                  !.cognito_username = cognito_username]
    /\ UNCHANGED notAccount

\* Lines 135-137: an exception inside the try is raised again as
\* "Failed to delete account".
Fail(what) ==
    [account EXCEPT !.pc = "raised", !.failed = what,
                    !.error = "Failed to delete account"]

\* Line 115, query_all_user_items (28-46): the user's items in the index.
QueryGsi ==
    /\ account.pc = "query_gsi"
    /\ account' = [account EXCEPT
                     !.gsi_items = KeyList(account.byUser \cap account.stored),
                     !.pc = "query_main"]
    /\ UNCHANGED notAccount

\* Line 115 when table.query raises.
QueryGsiFails ==
    /\ account.pc = "query_gsi"
    /\ account' = Fail("query")
    /\ UNCHANGED notAccount

\* Lines 119-127, query_main_table_user_items (49-66) and the start of
\* batch_delete_items (72-78): the items under the user's PK, the two lists
\* joined, and their distinct keys when there is any item.
QueryMain ==
    /\ account.pc = "query_main"
    /\ LET main_items == KeyList(account.main \cap account.stored)
           all_items == account.gsi_items \o main_items
       IN  account' = [account EXCEPT
                         !.main_items = main_items,
                         !.all_items = all_items,
                         !.all_keys = unique_keys(all_items, {}),
                         !.pc = IF all_items /= <<>> THEN "batch"
                                ELSE "cognito"]
    /\ UNCHANGED notAccount

\* Line 119 when table.query raises.
QueryMainFails ==
    /\ account.pc = "query_main"
    /\ account' = Fail("query")
    /\ UNCHANGED notAccount

\* The batch of line 83.
Batch ==
    SubSeq(account.all_keys, account.i + 1,
           IF account.i + BatchSize < Len(account.all_keys)
           THEN account.i + BatchSize ELSE Len(account.all_keys))

\* Lines 82-87: one batch is deleted when the with block is left.
DeleteBatch ==
    /\ account.pc = "batch"
    /\ LET i == account.i + BatchSize
       IN  account' = [account EXCEPT
                         !.stored = @ \ Range(Batch),
                         !.i = i,
                         !.pc = IF batch_loop_done(i, account.all_keys)
                                THEN "cognito" ELSE "batch"]
    /\ UNCHANGED notAccount

\* Lines 84-86 when the write raises: the first n keys of the batch were
\* deleted, the others were not.
DeleteBatchFails(n) ==
    /\ account.pc = "batch"
    /\ n < Len(Batch)
    /\ account' = [Fail("delete") EXCEPT
                     !.stored = @ \ Range(SubSeq(Batch, 1, n))]
    /\ UNCHANGED notAccount

\* Lines 130-133, delete_cognito_user (90-96), and the return.
DeleteCognito ==
    /\ account.pc = "cognito"
    /\ account' = [account EXCEPT !.cognito = FALSE,
                                  !.deleted = account.cognito_username,
                                  !.returned = TRUE, !.pc = "returned"]
    /\ UNCHANGED notAccount

\* Line 130 when admin_delete_user raises.
DeleteCognitoFails ==
    /\ account.pc = "cognito"
    /\ account' = Fail("cognito")
    /\ UNCHANGED notAccount

NextAccount ==
    \/ Identify
    \/ QueryGsi
    \/ QueryGsiFails
    \/ QueryMain
    \/ QueryMainFails
    \/ DeleteBatch
    \/ \E n \in 0..(BatchSize - 1) : DeleteBatchFails(n)
    \/ DeleteCognito
    \/ DeleteCognitoFails

SpecAccount == InitAccount /\ [][NextAccount]_vars

\* Runs of recount_points' main, one after the other.
NextSweep ==
    \/ \E season \in Seasons, rows \in UNION {Orders(S) : S \in SUBSET Users} :
          SweepList(season, rows)
    \/ SweepRow
    \/ SweepWrite
    \/ SweepWriteFails
    \/ SweepEnd

SpecSweep == InitSweep /\ [][NextSweep]_vars

\* The result store alone: calls of insert_race_results.handler.
NextResults ==
    \/ \E r \in Races, result_data \in ResultCandidates :
          InsertResult(r, result_data)
    \/ InsertRejected

SpecResults == InitPure /\ [][NextResults]_vars

\* The rank key codec alone: any two calls of get_padded_points.
NextCodec == \E points \in CodecInputs : Encode(points)

SpecCodec == InitPure /\ [][NextCodec]_vars

\* The scoring rules alone: one prediction scored against one result.
NextScoring == \E input \in ScoringInputs : Score(input)

SpecScoring == InitPure /\ [][NextScoring]_vars

\* ---------------------------------------------------------------- claims

\* The points one scoring of u's prediction for race r yields.
RacePointsOf(r, u) ==
    total_race_points(PredictionOf(r, u), RaceResultOf(r), HasSprintOf(r))

\* The races of season s whose points were added to u's total at least once.
FoldedRaces(u, s) == {r \in Races : SeasonOf(r) = s /\ applied[u][r] > 0}

RECURSIVE SumOver(_, _, _)
\* The sum of weight[r] * RacePointsOf(r, u) over the races R.
SumOver(u, R, weight) ==
    IF R = {} THEN 0
    ELSE LET r == CHOOSE x \in R : TRUE
         IN  weight[r] * RacePointsOf(r, u) + SumOver(u, R \ {r}, weight)

Once == [r \in Races |-> 1]

RECURSIVE TimesApplied(_, _)
\* How many leaderboard writes added a race of R to u's total.
TimesApplied(u, R) ==
    IF R = {} THEN 0
    ELSE LET r == CHOOSE x \in R : TRUE
         IN  applied[u][r] + TimesApplied(u, R \ {r})

SeasonRaces(s) == {r \in Races : SeasonOf(r) = s}

\* The entry of a user whose total holds each folded race exactly once.
CountedOnce(u, s) ==
    /\ lb[s][u].totalPoints = SumOver(u, FoldedRaces(u, s), Once)
    /\ lb[s][u].numberOfRaces = Cardinality(FoldedRaces(u, s))
    /\ RankKey(lb[s][u].byLeaderboardSK)
         = get_padded_points(SumOver(u, FoldedRaces(u, s), Once))

\* C1 (as claimed): applying the updater a second time for the same user and
\* race, one invocation after the other, leaves the user's entry as it was
\* after the first application: no points added, no race counted again.
CE_C1_SecondApplicationIsNoOp ==
    \A u \in Users, r \in Races :
        (/\ ~overlapped
         /\ completions[r] = 2
         /\ applied[u][r] = 2
         /\ \A x \in Races \ {r} : applied[u][x] = 0
         /\ lb[SeasonOf(r)][u].exists)
        => CountedOnce(u, SeasonOf(r))

\* C2 (as claimed): when update runs for two different races of the same user
\* interleave their read and write steps, no update is lost: as long as each
\* race was applied at most once, the total is the sum of the applied races'
\* points and the race count is their number.
CE_C2_NoLostUpdate ==
    \A u \in Users, s \in Seasons :
        (/\ \A r \in Races : applied[u][r] <= 1
         /\ lb[s][u].exists)
        => /\ lb[s][u].totalPoints = SumOver(u, FoldedRaces(u, s), Once)
           /\ lb[s][u].numberOfRaces = Cardinality(FoldedRaces(u, s))

\* C3 (as claimed): when an invocation for a race runs to completion after
\* an earlier invocation for the same race was cut off part-way (and none
\* completed, and none overlapped), then at its completion each user's total
\* holds the race's points exactly once.
CE_C3_RerunAfterAbortCountsOnce ==
    [][\A i \in Runs :
          (/\ run[i].pc = "write"
           /\ run'[i].pc = "done"
           /\ aborts[run[i].race_id] > 0
           /\ completions[run[i].race_id] = 0
           /\ ~overlapped)
          => \A u \in Users :
                (pred[run[i].race_id][u].exists /\ lb[run[i].season][u].exists)
                => applied'[u][run[i].race_id] = 1]_vars

\* The users whose prediction invocation i has finished processing.
Processed(i) ==
    {run[i].predictions[j] :
        j \in {x \in DOMAIN run[i].predictions : x < run[i].k}}

EntryRankKey(item) ==
    IF "byLeaderboardSK" \in DOMAIN item THEN RankKey(item.byLeaderboardSK)
    ELSE <<>>

CE_C6_RaceCountIsDistinctRaces ==
    \A s \in Seasons, u \in Users :
        (~overlapped /\ lb[s][u].exists)
        => lb[s][u].numberOfRaces = Cardinality(FoldedRaces(u, s))

\* C7: whatever order the predictions of a race are processed in, each user's
\* race points are those of the scoring rules, and each user's total and race
\* count are determined by which races were applied to the user (and how
\* often), not by the order (invocations one after the other).
T_C7_OrderIndependent ==
    ~overlapped
    => /\ \A r \in Races, u \in Users :
             (pred[r][u].exists /\ pred[r][u].points /= None)
             => pred[r][u].points = RacePointsOf(r, u)
       /\ \A s \in Seasons, u \in Users :
             lb[s][u].exists
             => /\ lb[s][u].totalPoints = SumOver(u, SeasonRaces(s), applied[u])
                /\ lb[s][u].numberOfRaces = TimesApplied(u, SeasonRaces(s))

\* C7 witness: an invocation has finished a race whose predictions it
\* processed in the order u2, u1, and both users' totals got their points.
W_C7 ==
    \E i \in Runs :
        /\ run[i].pc = "done"
        /\ run[i].predictions = <<"u2", "u1">>
        /\ ~overlapped
        /\ \A u \in Users :
              /\ lb[run[i].season][u].exists
              /\ lb[run[i].season][u].totalPoints = RacePointsOf(run[i].race_id, u)

\* The user's prediction items of one season.
SeasonItems(u, s) ==
    {item \in UserIndex(u) :
        /\ item.entityType = "PREDICTION"
        /\ \E r \in SeasonRaces(s) : item.key = <<"prediction", r>>}

\* C8 (as claimed): a recompute for (user, season) stores the sum of the
\* points of exactly the user's prediction records of that season, and the
\* number of races among those records.
CE_C8_RecomputeSumsTheSeason ==
    \A s \in Seasons, u \in Users :
        recounted[s][u] = "fresh"
        => /\ tp[s][u].points = SumItems(SeasonItems(u, s))[1]
           /\ tp[s][u].races = Cardinality(SeasonItems(u, s))

\* C9: a recompute for a user and season that follows a recompute for the
\* same user and season, with no write to the user's prediction items since
\* the first one summed them, leaves the entry exactly as it was.
T_C9_RecomputeFixedPoint ==
    [][(/\ rc.pc = "update"
        /\ rc'.pc = "idle"
        /\ rc.quiet
        /\ recounted[rc.season][rc.user_id] = "fresh")
       => tp'[rc.season][rc.user_id] = tp[rc.season][rc.user_id]]_vars

\* C9 witness: the second recompute is about to write, on top of the first
\* one's totals, with scored predictions to sum.
W_C9 ==
    /\ rc.pc = "update"
    /\ rc.quiet
    /\ recounted[rc.season][rc.user_id] = "fresh"
    /\ rc.total_points > 0
    /\ tp[rc.season][rc.user_id].points = rc.total_points

\* C10 (as claimed): after a recompute the stored total equals the sum of the
\* user's per-race scores of the season, whatever the entry held before.
CE_C10_RecomputeRepairsTotal ==
    \A s \in Seasons, u \in Users :
        recounted[s][u] = "fresh"
        => tp[s][u].points = SumOver(u, {r \in SeasonRaces(s) :
                                            /\ pred[r][u].exists
                                            /\ pred[r][u].points /= None}, Once)

\* ------------------------------------------------- claims: Rank Key Codec

\* The code point of each character a rank key may hold.
Ord(c) == IF c = "-" THEN 45 ELSE 48 + DigitValue(c)

RECURSIVE StrLess(_, _)
\* a < b under ordinal (code point by code point) string comparison.
StrLess(a, b) ==
    IF b = <<>> THEN FALSE
    ELSE IF a = <<>> THEN TRUE
    ELSE IF a[1] /= b[1] THEN Ord(a[1]) < Ord(b[1])
    ELSE StrLess(Tail(a), Tail(b))

InRange(points) == points \in 0..M

IsDigits(s) == \A i \in DOMAIN s : \E d \in 0..9 : s[i] = DigitChar(d)

\* C11: for every total p in 0..M, decoding the key get_padded_points
\* returned for p gives p back, and two calls with different totals in 0..M
\* never return the same key.
T_C11_DecodeInvertsEncode ==
    /\ \A i \in DOMAIN codec :
          InRange(codec[i].points)
          => /\ ~codec[i].raised
             /\ IsDigits(codec[i].padded)
             /\ decode(codec[i].padded) = codec[i].points
    /\ \A i, j \in DOMAIN codec :
          (/\ InRange(codec[i].points) /\ InRange(codec[j].points)
           /\ codec[i].padded = codec[j].padded)
          => codec[i].points = codec[j].points

\* C11 witness: the keys of M and of 0 were returned, the one with the most
\* leading zeros and the one with none.
W_C11 ==
    /\ Len(codec) = 2
    /\ codec[1].points = M
    /\ codec[2].points = 0
    /\ decode(codec[1].padded) = M
    /\ decode(codec[2].padded) = 0

\* C12: of two totals in 0..M the greater one gets the smaller key under
\* ordinal string comparison, and every key of a total in 0..M is exactly
\* Width (7) characters, all of them digits.
T_C12_KeysSortDescending ==
    /\ \A i \in DOMAIN codec :
          InRange(codec[i].points)
          => Len(codec[i].padded) = Width /\ IsDigits(codec[i].padded)
    /\ \A i, j \in DOMAIN codec :
          (/\ InRange(codec[i].points) /\ InRange(codec[j].points)
           /\ codec[i].points > codec[j].points)
          => StrLess(codec[i].padded, codec[j].padded)

\* C12 witness: two totals on either side of the point where M - points goes
\* from five digits to six, whose keys sort the right way only when padded.
W_C12 ==
    /\ Len(codec) = 2
    /\ codec[1].points = M - Pow10(5) + 1
    /\ codec[2].points = M - Pow10(5)
    /\ StrLess(codec[1].padded, codec[2].padded)
    /\ StrLess(str(M - codec[2].points), str(M - codec[1].points))

\* C13 (as claimed): a call with points > M or points < 0 is rejected: it
\* raises, and returns no key.
CE_C13_OutOfRangeIsRejected ==
    \A i \in DOMAIN codec : ~InRange(codec[i].points) => codec[i].raised

\* C14: among the keys of the totals in 0..M, the key of 0 is the greatest
\* and the key of M the smallest under ordinal string comparison, and the key
\* of M is Width zeros.
T_C14_ExtremeKeys ==
    \A i, j \in DOMAIN codec :
        (InRange(codec[i].points) /\ InRange(codec[j].points))
        => /\ codec[i].points = 0 => ~StrLess(codec[i].padded, codec[j].padded)
           /\ codec[i].points = M
                => /\ ~StrLess(codec[j].padded, codec[i].padded)
                   /\ codec[i].padded = Zeros(Width)

\* C14 witness: the key of M, all zeros, next to the key of 0, which is
\* greater.
W_C14 ==
    /\ Len(codec) = 2
    /\ codec[1].points = 0
    /\ codec[2].points = M
    /\ codec[2].padded = <<"0", "0", "0", "0", "0", "0", "0">>
    /\ StrLess(codec[2].padded, codec[1].padded)

\* --------------------------------------------- claims: Scoring Rule Engine

Scored == scoring.pc = "scored"

\* The tiers as the rules state them.
ClaimedTier(diff) ==
    CASE diff = 0 -> 10 [] diff = 1 -> 5 [] diff = 2 -> 2 [] OTHER -> 0

\* Whether a result list has an entry for the driver, and the position of it.
Listed(list, dn) == \E i \in DOMAIN list : list[i].driverNumber = dn

PositionOf(list, dn) ==
    list[CHOOSE i \in DOMAIN list : list[i].driverNumber = dn].position

Distance(a, b) == IF a < b THEN b - a ELSE a - b

\* The picks (indices of a predicted list) that name the driver.
PicksOf(preds, dn) == {k \in DOMAIN preds : preds[k].driverNumber = dn}

RECURSIVE SumTiers(_, _, _)
\* The tiers of the picks K, each for a driver the result lists.
SumTiers(preds, actuals, K) ==
    IF K = {} THEN 0
    ELSE LET k == CHOOSE x \in K : TRUE
         IN  ClaimedTier(Distance(PositionOf(actuals, preds[k].driverNumber),
                                  preds[k].position))
             + SumTiers(preds, actuals, K \ {k})

\* The sprint is scored: the three conditions of the sprint rule.
SprintScored ==
    /\ scoring.has_sprint
    /\ scoring.race_results.sprintPositions /= <<>>
    /\ scoring.predictions.sprintPositions /= <<>>

\* What the sprint picks for a driver are worth; a sprint pick with a falsy
\* driver number (0) is passed over.
SprintSum(dn) ==
    IF SprintScored /\ Truthy(dn)
       /\ Listed(scoring.race_results.sprintPositions, dn)
    THEN SumTiers(scoring.predictions.sprintPositions,
                  scoring.race_results.sprintPositions,
                  PicksOf(scoring.predictions.sprintPositions, dn))
    ELSE 0

\* The categories among pole, fastestLap, positionsGained in which prediction
\* and result both have a value and the values are equal.
MatchedCategories ==
    {key \in {"pole", "fastestLap", "positionsGained"} :
        /\ scoring.predictions.additionalPredictions[key] /= None
        /\ scoring.race_results.additionalPredictions[key] /= None
        /\ scoring.predictions.additionalPredictions[key]
             = scoring.race_results.additionalPredictions[key]}

\* What the matched categories that name the driver are worth.
AdditionalSum(dn) ==
    10 * Cardinality({key \in MatchedCategories :
                         scoring.race_results.additionalPredictions[key] = dn})

RECURSIVE SumOfPoints(_)
\* The points of all the drivers of a breakdown.
SumOfPoints(map) ==
    IF DOMAIN map = {} THEN 0
    ELSE LET dn == CHOOSE x \in DOMAIN map : TRUE
         IN  map[dn].points
             + SumOfPoints([x \in DOMAIN map \ {dn} |-> map[x]])

\* The points a breakdown records under pole, fastestLap and positionsGained.
AwardedFor(map) ==
    10 * Cardinality({<<dn, key>> \in
                         (DOMAIN map) \X {"pole", "fastestLap", "positionsGained"} :
                            map[dn].breakdown[key] /= None})

\* C15: every grid pick whose driver the result's gridOrder lists is awarded
\* 10, 5, 2 or 0 points by the distance |actual - predicted| being 0, 1, 2 or
\* more: the driver's points are the tiers of the picks that name the driver
\* (plus what sprint and the three categories give the driver), and the
\* driver's gridPosition entry is the tier of the last such pick.
T_C15_GridTiers ==
    Scored =>
        \A k \in DOMAIN scoring.predictions.gridOrder :
            LET grid == scoring.predictions.gridOrder
                actual == scoring.race_results.gridOrder
                dn == grid[k].driverNumber
            IN  (dn /= None /\ Listed(actual, dn))
                => /\ dn \in DOMAIN scoring.driver_points
                   /\ scoring.driver_points[dn].points
                        = SumTiers(grid, actual, PicksOf(grid, dn))
                          + SprintSum(dn) + AdditionalSum(dn)
                   /\ (\A j \in PicksOf(grid, dn) : j <= k)
                        => scoring.driver_points[dn].breakdown.gridPosition
                             = ClaimedTier(Distance(PositionOf(actual, dn),
                                                    grid[k].position))

\* C15 witness: picks that are exact (16 third), one off (1 second) and three
\* off (44 first), awarded 10, 5 and 0.
W_C15 ==
    /\ Scored
    /\ scoring.predictions.gridOrder = <<Entry(44, 1), Entry(1, 2), Entry(16, 3)>>
    /\ scoring.driver_points[44].breakdown.gridPosition = 0
    /\ scoring.driver_points[1].breakdown.gridPosition = 5
    /\ scoring.driver_points[16].breakdown.gridPosition = 10
    /\ scoring.total_race_points = 15

\* C16: a grid pick whose driver the result's gridOrder does not list gives
\* the driver no gridPosition entry and no points (the driver's record, when
\* there is one, holds only what sprint and the three categories give), and
\* the scoring raises no error.
T_C16_UnlistedDriverEarnsNothing ==
    Scored =>
        /\ ~scoring.raised
        /\ \A k \in DOMAIN scoring.predictions.gridOrder :
              LET dn == scoring.predictions.gridOrder[k].driverNumber
              IN  (/\ dn /= None
                     /\ ~Listed(scoring.race_results.gridOrder, dn)
                     /\ dn \in DOMAIN scoring.driver_points)
                  => /\ scoring.driver_points[dn].breakdown.gridPosition = None
                     /\ scoring.driver_points[dn].points
                          = SprintSum(dn) + AdditionalSum(dn)

\* C16 witness: driver 27, whom the result does not list, was picked second,
\* between two picks that scored; 27 has 0 points and no entry.
W_C16 ==
    /\ Scored
    /\ scoring.predictions.gridOrder = <<Entry(1, 1), Entry(27, 2), Entry(16, 3)>>
    /\ scoring.predictions.sprintPositions = <<>>
    /\ scoring.predictions.additionalPredictions = NoAdditional
    /\ scoring.driver_points[27].points = 0
    /\ scoring.driver_points[27].breakdown.gridPosition = None
    /\ scoring.driver_points[1].points = 10
    /\ scoring.driver_points[16].points = 10

\* The prediction or result without its sprint data.
WithoutSprint(record) == [record EXCEPT !.sprintPositions = <<>>]

\* C17 (as claimed): the sprint is scored, with the tiers of the grid, only
\* when has_sprint holds and prediction and result both have a non-empty
\* sprintPositions; when one of the three fails, no driver has a
\* sprintPosition entry and the total is what it is without the sprint data.
CE_C17_SprintOnlyWhenAllThree ==
    Scored =>
        /\ SprintScored
             => \A k \in DOMAIN scoring.predictions.sprintPositions :
                   LET sprint == scoring.predictions.sprintPositions
                       actual == scoring.race_results.sprintPositions
                       dn == sprint[k].driverNumber
                   IN  (/\ dn /= None /\ Listed(actual, dn)
                        /\ \A j \in PicksOf(sprint, dn) : j <= k)
                       => scoring.driver_points[dn].breakdown.sprintPosition
                            = ClaimedTier(Distance(PositionOf(actual, dn),
                                                   sprint[k].position))
        /\ ~SprintScored
             => /\ \A dn \in DOMAIN scoring.driver_points :
                      scoring.driver_points[dn].breakdown.sprintPosition = None
                /\ scoring.total_race_points
                     = total_race_points(WithoutSprint(scoring.predictions),
                                         WithoutSprint(scoring.race_results),
                                         scoring.has_sprint)

\* C18 (as claimed): for each of pole, fastestLap and positionsGained, when
\* prediction and result both have a value and the values are equal, 10
\* points are awarded to the driver the value names and are part of the
\* total; otherwise the category awards nothing.
CE_C18_MatchedCategoryAwardsTen ==
    Scored =>
        /\ \A key \in MatchedCategories :
              LET dn == scoring.race_results.additionalPredictions[key]
              IN  /\ dn \in DOMAIN scoring.driver_points
                  /\ scoring.driver_points[dn].breakdown[key] = 10
        /\ \A key \in {"pole", "fastestLap", "positionsGained"} \ MatchedCategories :
              \A dn \in DOMAIN scoring.driver_points :
                  scoring.driver_points[dn].breakdown[key] = None
        /\ scoring.total_race_points
             = SumOfPoints(scoring.driver_points) - AwardedFor(scoring.driver_points)
               + 10 * Cardinality(MatchedCategories) + scoring.bonus_points

\* Position n is correct: the driver the prediction places at grid position
\* n is the driver the result's gridOrder lists at position n.
PositionCorrect(n) ==
    \E i \in DOMAIN scoring.predictions.gridOrder,
       j \in DOMAIN scoring.race_results.gridOrder :
        /\ scoring.predictions.gridOrder[i].position = n
        /\ scoring.race_results.gridOrder[j].position = n
        /\ scoring.predictions.gridOrder[i].driverNumber /= None
        /\ scoring.predictions.gridOrder[i].driverNumber
             = scoring.race_results.gridOrder[j].driverNumber

CorrectPositions == {n \in 1..10 : PositionCorrect(n)}

\* C19: the bonus is the sum of four awards, each earned on its own: 10 when
\* position 1 is correct, 30 when positions 1, 2 and 3 all are, 60 when at
\* least 6 of the positions 1..10 are, 100 when all 10 are.
T_C19_BonusIsSumOfFourAwards ==
    Scored =>
        scoring.bonus_points
          = (IF 1 \in CorrectPositions THEN 10 ELSE 0)
            + (IF {1, 2, 3} \subseteq CorrectPositions THEN 30 ELSE 0)
            + (IF Cardinality(CorrectPositions) >= 6 THEN 60 ELSE 0)
            + (IF Cardinality(CorrectPositions) = 10 THEN 100 ELSE 0)

\* C19 witness: all ten positions correct: the four awards together, 200, on
\* top of 100 points of the grid.
W_C19 ==
    /\ Scored
    /\ CorrectPositions = 1..10
    /\ scoring.bonus_points = 200
    /\ scoring.total_race_points = 300

\* C20: is_pos_correct(n) is true exactly when the driver the prediction
\* places at position n is the driver the result lists at position n; it is
\* false when the prediction has no driver at position n.
T_C20_PositionCorrect ==
    Scored => \A n \in 1..10 : scoring.correct[n] = PositionCorrect(n)

\* C20 witness: position 1 predicted right, position 2 predicted with no
\* driver, position 3 predicted with the driver who finished fourth.
W_C20 ==
    /\ Scored
    /\ scoring.predictions.gridOrder
         = <<Entry(1, 1), Entry(None, 2), Entry(44, 3)>>
    /\ scoring.correct[1]
    /\ ~scoring.correct[2]
    /\ ~scoring.correct[3]

\* C21: the total of a scoring is the sum of the drivers' points plus the
\* bonus; every driver's points and the bonus are non-negative integers, and
\* so the total is not negative.
T_C21_TotalIsSumPlusBonus ==
    Scored =>
        /\ scoring.total_race_points
             = SumOfPoints(scoring.driver_points) + scoring.bonus_points
        /\ \A dn \in DOMAIN scoring.driver_points :
              scoring.driver_points[dn].points \in Nat
        /\ scoring.bonus_points \in Nat
        /\ scoring.total_race_points >= 0

\* C21 witness: six of the top ten right, the winner not: 60 points of
\* bonus on top of the drivers' points.
W_C21 ==
    /\ Scored
    /\ scoring.bonus_points = 60
    /\ SumOfPoints(scoring.driver_points) = 60
    /\ scoring.total_race_points = 120

\* The pick (index of the predicted gridOrder) is within two positions of
\* where the result lists its driver.
WithinTwo(k) ==
    LET pick == scoring.predictions.gridOrder[k]
    IN  /\ pick.driverNumber /= None
        /\ Listed(scoring.race_results.gridOrder, pick.driverNumber)
        /\ Distance(PositionOf(scoring.race_results.gridOrder,
                               pick.driverNumber), pick.position) <= 2

\* C22 (Scenario A): when the prediction has the result's driver X at
\* position 1, no other pick is within two positions of its driver's actual
\* position, the sprint is not scored and no category matches, then X has 10
\* points, the bonus is 10 and the total is 20.
T_C22_ScenarioA ==
    Scored =>
        \A k \in DOMAIN scoring.predictions.gridOrder :
            LET grid == scoring.predictions.gridOrder
                X == grid[k].driverNumber
            IN  (/\ grid[k].position = 1
                 /\ PositionCorrect(1)
                 /\ \A j \in DOMAIN grid \ {k} : ~WithinTwo(j)
                 /\ ~SprintScored
                 /\ MatchedCategories = {})
                => /\ scoring.driver_points[X].points = 10
                   /\ scoring.bonus_points = 10
                   /\ scoring.total_race_points = 20

\* C22 witness: driver 1 predicted and classified first; the other picks a
\* driver classified eleventh and a driver the result does not list.
W_C22 ==
    /\ Scored
    /\ scoring.predictions.gridOrder = <<Entry(1, 1), Entry(10, 2), Entry(27, 3)>>
    /\ ~SprintScored
    /\ MatchedCategories = {}
    /\ scoring.driver_points[1].points = 10
    /\ scoring.total_race_points = 20

\* C23 (Scenario B): when the prediction's ten picks are the result's drivers
\* at positions 1..10, the sprint is not scored and no category matches, the
\* bonus is 200, the grid gives 100 and the total is 300.
T_C23_ScenarioB ==
    (/\ Scored
     /\ CorrectPositions = 1..10
     /\ Len(scoring.predictions.gridOrder) = 10
     /\ ~SprintScored
     /\ MatchedCategories = {})
    => /\ scoring.bonus_points = 200
       /\ SumOfPoints(scoring.driver_points) = 100
       /\ \A n \in 1..10 :
             scoring.driver_points[scoring.race_results.gridOrder[n].driverNumber]
                .breakdown.gridPosition = 10
       /\ scoring.total_race_points = 300

\* C23 witness: the result's first ten predicted in the result's order.
W_C23 ==
    /\ Scored
    /\ Len(scoring.race_results.gridOrder) >= 10
    /\ scoring.predictions.gridOrder = SubSeq(scoring.race_results.gridOrder, 1, 10)
    /\ scoring.driver_points[23].points = 10
    /\ scoring.bonus_points = 200

\* The drivers a list's entries name.
DriversOf(list) ==
    {list[i].driverNumber : i \in DOMAIN list} \ {None}

\* The drivers the scoring refers to: those of both gridOrders and, when the
\* race has a sprint, those of both sprintPositions.
ReferencedDrivers ==
    DriversOf(scoring.race_results.gridOrder)
    \cup DriversOf(scoring.predictions.gridOrder)
    \cup (IF scoring.has_sprint
          THEN DriversOf(scoring.race_results.sprintPositions)
               \cup DriversOf(scoring.predictions.sprintPositions)
          ELSE {})

\* The driver is never matched: no pick of a scored list names the driver
\* together with the result, and no matched category names the driver.
NeverMatched(dn) ==
    /\ ~(/\ dn \in DriversOf(scoring.predictions.gridOrder)
         /\ dn \in DriversOf(scoring.race_results.gridOrder))
    /\ ~(/\ SprintScored
         /\ dn \in DriversOf(scoring.predictions.sprintPositions)
         /\ dn \in DriversOf(scoring.race_results.sprintPositions))
    /\ \A key \in MatchedCategories :
          scoring.race_results.additionalPredictions[key] /= dn

T_C28_RescoringOverwrites ==
    \A r \in Races, u \in Users :
        (pred[r][u].exists /\ pred[r][u].points /= None)
        => /\ pred[r][u].points = RacePointsOf(r, u)
           /\ pred[r][u].byLeaderboardSK
                = LeaderboardSK(get_padded_points(RacePointsOf(r, u)), u)

\* C28 witness: a race was scored to the end twice, and a prediction with
\* points to earn holds them once.
W_C28 ==
    \E r \in Races, u \in Users :
        /\ completions[r] = 2
        /\ pred[r][u].exists
        /\ RacePointsOf(r, u) > 0
        /\ pred[r][u].points = RacePointsOf(r, u)

\* C29: no step of the scoring path changes a prediction item's forecast
\* (gridOrder, sprintPositions, additionalPredictions) or any attribute of it
\* other than points and the per-race rank key.
T_C29_ForecastIsNeverWritten ==
    [][\A r \in Races, u \in Users :
          pred[r][u].exists
          => /\ pred'[r][u].exists
             /\ \A a \in DOMAIN pred[r][u] \ {"points", "byLeaderboardSK"} :
                   pred'[r][u][a] = pred[r][u][a]]_vars

\* C29 witness: a scored prediction item with the forecast as submitted.
W_C29 ==
    \E r \in Races, u \in Users :
        /\ pred[r][u].exists
        /\ pred[r][u].points = RacePointsOf(r, u)
        /\ pred[r][u].prediction = PredictionOf(r, u)
        /\ pred[r][u].prediction.gridOrder /= <<>>
        /\ applied[u][r] > 0

\* -------------------------------------------- claims: the race results

\* C30 (as claimed): once a result is stored for a race, no later call of
\* the insert handler for the same race changes the stored result.
CE_C30_PublishedResultIsImmutable ==
    [][\A r \in Races :
          results.items[r].exists
          => /\ results'.items[r].exists
             /\ results'.items[r].results = results.items[r].results]_vars

\* ------------------------------------------- claims: what can go wrong

\* C25 (as claimed): an invocation for a race whose result is missing from
\* the event, or whose race item is missing (so that hasSprint is unknown),
\* fails for the whole race: it scores no prediction and writes no prediction
\* item and no leaderboard entry.
CE_C25_NoResultOrNoRaceIsFatal ==
    [][\A i \in Runs :
          (\/ run[i].error = "ValueError"
           \/ run[i].pc /= "idle" /\ ~run[i].race_found)
          => /\ pred' = pred
             /\ lb' = lb
             /\ run'[i].pc \in {"failed", "idle"}]_vars

\* The users whose prediction item for the race of invocation i is
\* well-formed.
WellFormed(i) ==
    {u \in Users : /\ pred[run[i].race_id][u].exists
                   /\ pred[run[i].race_id][u].missing = "none"}

\* C26 (as claimed): a malformed prediction item is skipped: when an
\* invocation that met no store failure is over, every well-formed
\* prediction of the race has been scored and folded into its user's entry,
\* and the invocation has not been ended by the malformed item.
CE_C26_MalformedPredictionIsSkipped ==
    \A i \in Runs :
        (run[i].pc \in {"done", "failed"} /\ run[i].error \in {"none", "KeyError"})
        => /\ run[i].pc = "done"
           /\ \A u \in WellFormed(i) :
                 /\ pred[run[i].race_id][u].points /= None
                 /\ lb[run[i].season][u].exists
                      => applied[u][run[i].race_id] >= 1

\* C27 (as claimed): when a store write for one user fails, the invocation
\* still applies the updates of the race's other users and ends with the
\* status PARTIAL.
CE_C27_WriteFailureGivesPartial ==
    \A i \in Runs :
        run[i].error = "ClientError"
        => /\ run[i].status = "PARTIAL"
           /\ \A u \in WellFormed(i) \ {run[i].predictions[run[i].k]} :
                 /\ pred[run[i].race_id][u].points /= None
                 /\ lb[run[i].season][u].exists
                      => applied[u][run[i].race_id] >= 1

\* ------------------------------------ claims: the scoring record, again

\* The sum of the entries a driver's breakdown holds.
BreakdownSum(breakdown) ==
    LET value(key) == IF breakdown[key] = None THEN 0 ELSE breakdown[key]
    IN  value("gridPosition") + value("sprintPosition") + value("pole")
        + value("fastestLap") + value("positionsGained")

\* C34 (as claimed): in every record calculate_driver_points returns, points
\* is the sum of the entries of the record's breakdown, also when the
\* prediction lists a driver more than once or several categories name one
\* driver.
CE_C34_PointsEqualBreakdownSum ==
    Scored =>
        \A dn \in DOMAIN scoring.driver_points :
            scoring.driver_points[dn].points
              = BreakdownSum(scoring.driver_points[dn].breakdown)

\* C35: the bonus is one of 0, 10, 40, 60, 70, 100, 200; a correct podium
\* brings the winner's award with it (at least 40), and ten correct positions
\* bring all four awards (200).
T_C35_BonusValues ==
    Scored =>
        /\ scoring.bonus_points \in {0, 10, 40, 60, 70, 100, 200}
        /\ (\A n \in 1..3 : scoring.correct[n])
             => scoring.bonus_points \in {40, 100, 200}
        /\ (\A n \in 1..10 : scoring.correct[n]) => scoring.bonus_points = 200
        /\ scoring.bonus_points \in {10, 40, 70, 100, 200} <=> scoring.correct[1]

\* C35 witness: six positions correct, the first among them and the third
\* not: the winner's award and the award for six, 70.
W_C35 ==
    /\ Scored
    /\ scoring.correct[1]
    /\ ~scoring.correct[3]
    /\ Cardinality({n \in 1..10 : scoring.correct[n]}) = 6
    /\ scoring.bonus_points = 70

\* C36: no scoring indexes the map by a driver without a record: every grid
\* pick that is scored (a driver, listed in the result's grid), every sprint
\* pick that is scored (sprint scored, truthy driver, listed in the result's
\* sprint) and every category that is credited names a driver of the map, and
\* no KeyError is raised.
T_C36_CreditedDriverHasRecord ==
    Scored =>
        /\ ~scoring.raised
        /\ \A k \in DOMAIN scoring.predictions.gridOrder :
              LET dn == scoring.predictions.gridOrder[k].driverNumber
              IN  (dn /= None /\ Listed(scoring.race_results.gridOrder, dn))
                  => dn \in DOMAIN scoring.driver_points
        /\ SprintScored
             => \A k \in DOMAIN scoring.predictions.sprintPositions :
                   LET dn == scoring.predictions.sprintPositions[k].driverNumber
                   IN  (Truthy(dn)
                        /\ Listed(scoring.race_results.sprintPositions, dn))
                       => dn \in DOMAIN scoring.driver_points

\* C36 witness: driver 0 picked first in the grid (and classified first),
\* picked in the sprint and matched as pole; 27 is in the prediction only and
\* 5 in the result's sprint only. Driver 0 has a record with grid and pole
\* points.
W_C36 ==
    /\ Scored
    /\ SprintScored
    /\ scoring.predictions.gridOrder = <<Entry(0, 1), Entry(27, 2)>>
    /\ scoring.predictions.sprintPositions = <<Entry(5, 1), Entry(0, 2)>>
    /\ scoring.predictions.additionalPredictions.pole = 0
    /\ {0, 5, 27} \subseteq DOMAIN scoring.driver_points
    /\ scoring.driver_points[0].points = 20
    /\ scoring.driver_points[5].points = 10

\* ----------------------------------- claims: the updater, user by user

\* The user invocation i is processing.
CurrentUser(i) == run[i].predictions[run[i].k]

\* A step changes an item of user u: a prediction item or an entry.
ItemsChange(u) ==
    \/ \E r \in Races : pred'[r][u] /= pred[r][u]
    \/ \E s \in Seasons : lb'[s][u] /= lb[s][u]

\* C31, the frame: a step that changes an item of user u is a step of an
\* invocation that is processing u, and it changes no item of another user.
UpdaterFrame ==
    \A u \in Users :
        ItemsChange(u)
        => /\ \E i \in Runs :
                 InFlight(i) /\ CurrentUser(i) = u /\ run'[i] /= run[i]
           /\ \A v \in Users \ {u} : ~ItemsChange(v)

\* C31, the interleavings: as long as no two invocations were between read
\* and write of the same user's entry together, a user's total and race count
\* are determined by the races applied to that user, however the steps for
\* other users were interleaved with them.
UpdaterConfluent ==
    \A u \in Users, s \in Seasons :
        (~contended[u] /\ lb[s][u].exists)
        => /\ lb[s][u].totalPoints = SumOver(u, SeasonRaces(s), applied[u])
           /\ lb[s][u].numberOfRaces = TimesApplied(u, SeasonRaces(s))

\* C31: an updater application for one user changes no other user's entry
\* and no other user's prediction item, and the state updates for different
\* users lead to is the same for every interleaving of their steps.
T_C31_UsersAreIndependent == []UpdaterConfluent /\ [][UpdaterFrame]_vars

\* C31 witness: two invocations in flight together, one about to write u1's
\* entry and the other u2's, after both users' entries were already written
\* once, with no contention on either.
W_C31 ==
    /\ overlapped
    /\ run[1].pc = "write" /\ run[2].pc = "write"
    /\ CurrentUser(1) /= CurrentUser(2)
    /\ run[1].season = run[2].season
    /\ \A u \in Users :
          /\ ~contended[u]
          /\ lb[run[1].season][u].exists
          /\ lb[run[1].season][u].totalPoints > 0

\* C37 (as claimed): under updater applications alone, no step lowers a
\* user's totalPoints or raises the user's rank key in string order, and every
\* applied update to an existing entry raises numberOfRaces by exactly 1.
CE_C37_TotalsAreMonotonic ==
    [][\A s \in Seasons, u \in Users :
          lb[s][u].exists
          => /\ lb'[s][u].totalPoints >= lb[s][u].totalPoints
             /\ ~StrLess(RankKey(lb[s][u].byLeaderboardSK),
                         RankKey(lb'[s][u].byLeaderboardSK))
             /\ (\E r \in SeasonRaces(s) : applied'[u][r] /= applied[u][r])
                  => lb'[s][u].numberOfRaces = lb[s][u].numberOfRaces + 1]_vars

\* ------------------------------------- claims: updater against recompute

\* C33 (as claimed): for a user whose entry started at total 0 and count 0
\* and to whom each race was applied at most once, by invocations that have
\* all ended, a recompute of the user's season stores the very total and race
\* count the updater has maintained, also when some of the user's predictions
\* are not scored yet.
CE_C33_RecomputeIsNoOpWithoutDrift ==
    \A s \in Seasons, u \in Users :
        (/\ lb[s][u].exists
         /\ \A r \in Races : applied[u][r] <= 1
         /\ \A r \in Races : pred[r][u].exists /\ pred[r][u].points /= None
                                => applied[u][r] = 1
         /\ \A i \in Runs : run[i].pc = "idle"
         /\ recounted[s][u] = "fresh")
        => /\ tp[s][u].points = lb[s][u].totalPoints
           /\ tp[s][u].races = lb[s][u].numberOfRaces

\* ------------------------------------------- claims: the recount's write

\* The item the recount is about to write is an existing LEADERBOARD item.
TargetIsLeaderboard ==
    /\ tp[rc.season][rc.user_id].exists
    /\ tp[rc.season][rc.user_id].entityType = "LEADERBOARD"

\* C38: the recount's write changes nothing but the points and races of an
\* existing item of entityType LEADERBOARD. When the target is missing or of
\* another type, no item is created, the store stays as it is, the failed
\* condition is swallowed and the loop goes on with the next row; any other
\* store error ends the run, with the rows left unprocessed.
T_C38_RecountWritesLeaderboardOnly ==
    [][/\ rc.pc = "update"
          => /\ pred' = pred /\ lb' = lb
             /\ \A s \in Seasons, u \in Users :
                   tp'[s][u] /= tp[s][u]
                   => /\ s = rc.season /\ u = rc.user_id
                      /\ TargetIsLeaderboard
                      /\ tp'[s][u] = [tp[s][u] EXCEPT
                                         !.points = rc.total_points,
                                         !.races = rc.races_count]
             /\ (~TargetIsLeaderboard /\ rc'.outcome /= "raised")
                  => /\ tp' = tp
                     /\ rc'.outcome = "skipped"
                     /\ rc'.pc = "loop"
                     /\ rc'.rows = rc.rows
             /\ rc'.outcome = "raised" => tp' = tp /\ rc'.pc = "aborted"
       /\ rc.pc = "aborted" => tp' = tp /\ rc'.pc = "idle"]_vars

\* C38 witness: the run skipped a user whose TOTALPOINTS item is missing and
\* is now about to write the next user's LEADERBOARD item.
W_C38 ==
    /\ rc.pc = "update"
    /\ rc.outcome = "skipped"
    /\ TargetIsLeaderboard
    /\ \E u \in Users \ {rc.user_id} : ~tp[rc.season][u].exists
    /\ tp[rc.season][rc.user_id].points /= rc.total_points

\* ------------------------------------------- claims: the copy scripts

\* The item at the key the running script's next put is aimed at.
CopyTarget ==
    IF copy.script = "copy_race_predictions"
    THEN pred[copy.target][Head(copy.rows)]
    ELSE tp[copy.target][Head(copy.rows)]

\* One iteration of a copy script's loop: no item that exists is changed;
\* when the target exists nothing at all is written and the item is counted
\* as passed over; the loop goes on with the next row.
CopyNeverOverwrites ==
    (copy.pc = "loop" /\ copy.rows /= <<>>)
    => /\ \A x \in Seasons, u \in Users :
             tp[x][u].exists => tp'[x][u] = tp[x][u]
       /\ \A r \in Races, u \in Users :
             pred[r][u].exists => pred'[r][u] = pred[r][u]
       /\ lb' = lb
       /\ CopyTarget.exists
            => /\ tp' = tp /\ pred' = pred
               /\ copy'.skipped = copy.skipped + 1
               /\ copy'.copied = copy.copied
       /\ copy'.pc = "loop"
       /\ copy'.rows = Tail(copy.rows)

\* A run that repeats a run that ended copies nothing.
RerunCopiesNothing ==
    <<copy.script, copy.source, copy.target>> \in copy.done
    => copy.copied = 0

\* C32: the copy scripts never overwrite an existing target: the put is
\* rejected, the item stays as it is and is passed over, the run goes on; a
\* run that repeats a completed copy changes nothing in the table.
T_C32_CopyNeverOverwrites ==
    []RerunCopiesNothing /\ [][CopyNeverOverwrites]_vars

\* C32 witness: a run that repeats a completed copy of two items has passed
\* over both.
W_C32 ==
    /\ copy.pc = "loop"
    /\ copy.rows = <<>>
    /\ <<copy.script, copy.source, copy.target>> \in copy.done
    /\ copy.source /= copy.target
    /\ copy.skipped = 2
    /\ copy.copied = 0

\* ------------------------------------------- claims: the paginated query

\* The query loop goes on exactly as long as the page just read carries a
\* continuation key.
QueryLoopEndsWithoutKey ==
    \A i \in Runs :
        run[i].pc = "query"
        => (run'[i].pc = "query" <=> run'[i].last_evaluated_key /= <<>>)

\* Once the loop is over, the predictions loaded are the race's stored
\* predictions, each once; at the return each of them was scored once and
\* processed_count is their number.
EveryPredictionScoredOnce ==
    \A i \in Runs :
        (run[i].pages > 0 /\ run[i].pc \in {"score", "read", "write", "done"})
        => /\ run[i].last_evaluated_key = <<>>
           /\ run[i].predictions = SortedOrder(run[i].race_id)
           /\ \A u \in Users :
                 Cardinality({n \in DOMAIN run[i].scored : run[i].scored[n] = u})
                   <= 1
           /\ run[i].pc = "done"
                => /\ run[i].scored = run[i].predictions
                   /\ run[i].processed_count = Len(run[i].predictions)
                   /\ run[i].processed_count
                        = Cardinality({u \in Users :
                                          pred[run[i].race_id][u].exists})
                   /\ \A u \in Users :
                         pred[run[i].race_id][u].exists
                         => pred[run[i].race_id][u].points /= None

\* C39: the query loop ends with the first page that has no continuation
\* key; every prediction the pages returned is scored exactly once in the
\* invocation, and the processed_count returned is the number loaded.
T_C39_EveryPageScoredOnce ==
    []EveryPredictionScoredOnce /\ [][QueryLoopEndsWithoutKey]_vars

\* C39 witness: an invocation that read three pages (one prediction, one
\* more, then an empty page without key) has scored both predictions and
\* returns 2.
W_C39 ==
    \E i \in Runs :
        /\ run[i].pc = "done"
        /\ run[i].pages = 3
        /\ run[i].scored = <<"u1", "u2">>
        /\ run[i].processed_count = 2

\* ------------------------------------------------ claims: deleteAccount

\* The items the handler found for the user.
Found == Range(account.all_items)

\* The Cognito user is gone only when the request had a user identity, no
\* step failed and none of the items found is in the table any more.
CognitoDeletedLast ==
    ~account.cognito
    => /\ account.identity.kind /= "null" /\ account.identity.sub /= ""
       /\ account.failed = "none"
       /\ Found \cap account.stored = {}
       /\ Found = (account.byUser \cup account.main)

\* A request without identity, a failed query or a failed delete leaves the
\* Cognito user and ends in an error.
FailureKeepsCognito ==
    /\ account.failed \in {"identity", "query", "delete"}
         => account.cognito /\ account.pc = "raised" /\ account.error /= "none"
            /\ ~account.returned
    /\ (account.pc \notin {"none", "start"}
        /\ (account.identity.kind = "null" \/ account.identity.sub = ""))
         => account.failed = "identity"

\* The Cognito user is deleted by the step after the last batch only.
CognitoStep ==
    (account.pc /= "none" /\ account.cognito /\ ~account'.cognito)
    => account.pc = "cognito" /\ Found \cap account.stored = {}

\* C40: the Cognito user is deleted only after every item found for the
\* user was deleted; without user identity, or when a query or a delete of
\* items fails, the Cognito user stays and the handler raises an error.
T_C40_CognitoDeletedLast ==
    [](CognitoDeletedLast /\ FailureKeepsCognito) /\ [][CognitoStep]_vars

\* C40 witness: the handler found more than one batch of items, deleted
\* them all and then the Cognito user.
W_C40 ==
    /\ account.pc = "returned"
    /\ ~account.cognito
    /\ Len(account.all_keys) > BatchSize
    /\ Len(account.all_items) > Len(account.all_keys)
    /\ account.stored = {}

====
